---- MODULE Spec2Model ----
(***************************************************************************)
(* Model of rmf_workcell: the workcell document (rmf_workcell_format), its *)
(* import from and export to URDF (Workcell::from_urdf, Workcell::to_urdf) *)
(* and the codecs they use, and the workspace systems of the editor that   *)
(* call them (rmf_workcell_editor/src/workspace.rs).                        *)
(*                                                                         *)
(* Scalars.  An f64 is an integer counted in half steps of the f32 grid,   *)
(* an f32 an integer counted in whole steps: the f64 value 2k is the f32   *)
(* value k, and an odd f64 value is not representable in f32.  Inputs are  *)
(* drawn from the representable (even) values, so that values are compared *)
(* exactly and rounding tolerance plays no part, except for the limits of  *)
(* a joint, which are also drawn from values that are not representable.   *)
(*                                                                         *)
(* Names are sequences of string tokens, so that the concatenation of      *)
(* line 285 of workcell.rs is the concatenation of sequences.              *)
(***************************************************************************)
EXTENDS Integers, Sequences, FiniteSets, TLC

\* The conversion under check: the URDF given, where the run stands, the result of
\* from_urdf and the result of to_urdf.
VARIABLES pc, urdf, workcell, robot

\* The editor: the AppState and InteractionState and their pending NextState, the
\* LoadWorkcell events sent, the last LoadWorkspaceFile request handled and how many
\* were handled.
VARIABLES app_state, next_app_state, interaction_state, next_interaction_state,
          load_workcell, request, handled

\* The workspace: the CurrentWorkspace resource (with the change flag that
\* sync_workspace_visibility sees), the RecallWorkspace resource, the Visibility and
\* DefaultFile components by entity, the SaveWorkspace events not yet read, the file
\* dialogs open, the SaveWorkspaceChannels queue, the SaveWorkcell events sent and
\* not yet read, and the system that ran last.
VARIABLES current_workspace, recall, visibility, default_files,
          save_events, dialogs, save_channel, save_workcell, step

conversionVars == <<pc, urdf, workcell, robot>>

workspaceVars == <<current_workspace, recall, visibility, default_files,
                   save_events, dialogs, save_channel, save_workcell, step>>

editorVars == <<app_state, next_app_state, interaction_state, next_interaction_state,
                load_workcell, request, handled, workspaceVars>>

vars == <<conversionVars, editorVars>>

(***************************************************************************)
(* Bounds of the model.                                                    *)
(***************************************************************************)
MaxLinks == 2

MaxJoints == 2

\* How many LoadWorkspaceFile requests the editor handles in a run.
MaxLoads == 2

(***************************************************************************)
(* Generic helpers: Option, Result, maps with ordered keys.                *)
(***************************************************************************)
None == <<>>

Some(v) == <<v>>

Ok(v) == [tag |-> "Ok", value |-> v]

Err(e) == [tag |-> "Err", value |-> e]

NotRun == [tag |-> "NotRun", value |-> <<>>]

EmptyMap == [k \in {} |-> {}]

Insert(m, k, v) == [x \in (DOMAIN m) \cup {k} |-> IF x = k THEN v ELSE m[x]]

MinOf(S) == CHOOSE m \in S : \A o \in S : m <= o

RECURSIVE Ascending(_)
Ascending(S) == IF S = {} THEN <<>> ELSE <<MinOf(S)>> \o Ascending(S \ {MinOf(S)})

Map3(f(_), t) == <<f(t[1]), f(t[2]), f(t[3])>>

(***************************************************************************)
(* Float width conversions (`as f32`, `as f64`).                           *)
(***************************************************************************)
AsF32(x) == x \div 2

AsF64(y) == y * 2

(***************************************************************************)
(* Poses.  urdf_rs::Pose is xyz and rpy in f64; the document's Pose is a   *)
(* translation in f32 and a Rotation variant.                              *)
(***************************************************************************)
UrdfPose(xyz, rpy) == [xyz |-> xyz, rpy |-> rpy]

UrdfPoseDefault == UrdfPose(<<0, 0, 0>>, <<0, 0, 0>>)

Pose(trans, rot) == [trans |-> trans, rot |-> rot]

RotYaw(a) == [kind |-> "Yaw", v |-> <<a>>]

RotEuler(angles) == [kind |-> "EulerExtrinsicXYZ", v |-> angles]

RotQuat(q) == [kind |-> "Quat", v |-> q]

PoseDefault == Pose(<<0, 0, 0>>, RotYaw(0))

PoseFromUrdf(p) == Pose(Map3(AsF32, p.xyz), RotEuler(Map3(AsF32, p.rpy)))

AsEulerExtrinsicXYZ(rot) ==
  CASE rot.kind = "EulerExtrinsicXYZ" -> rot.v
    [] rot.kind = "Yaw" -> <<0, 0, rot.v[1]>>
    [] OTHER -> <<0, 0, 0>>

PoseToUrdf(p) == UrdfPose(Map3(AsF64, p.trans), Map3(AsF64, AsEulerExtrinsicXYZ(p.rot)))

AnchorPose3D(p) == [kind |-> "Pose3D", pose |-> p]

(***************************************************************************)
(* Inertial codec (inertial.rs).                                           *)
(***************************************************************************)
MomentFromUrdf(inertia) ==
  [ixx |-> AsF32(inertia.ixx), ixy |-> AsF32(inertia.ixy), ixz |-> AsF32(inertia.ixz),
   iyy |-> AsF32(inertia.iyy), iyz |-> AsF32(inertia.iyz), izz |-> AsF32(inertia.izz)]

InertiaFromUrdf(inertial) ==
  [center |-> PoseFromUrdf(inertial.origin),
   mass |-> AsF32(inertial.mass),
   moment |-> MomentFromUrdf(inertial.inertia)]

InertialToUrdf(inertia) ==
  [origin |-> PoseToUrdf(inertia.center),
   mass |-> AsF64(inertia.mass),
   inertia |-> [ixx |-> AsF64(inertia.moment.ixx), ixy |-> AsF64(inertia.moment.ixy),
                ixz |-> AsF64(inertia.moment.ixz), iyy |-> AsF64(inertia.moment.iyy),
                iyz |-> AsF64(inertia.moment.iyz), izz |-> AsF64(inertia.moment.izz)]]

UrdfInertialDefault ==
  [origin |-> UrdfPoseDefault,
   mass |-> 0,
   inertia |-> [ixx |-> 0, ixy |-> 0, ixz |-> 0, iyy |-> 0, iyz |-> 0, izz |-> 0]]

(***************************************************************************)
(* Geometry codec (geometry.rs).  A mesh file name is a sequence of        *)
(* tokens; the locator scheme, when there is one, is its first token.      *)
(***************************************************************************)
PackagePrefix == "package://"

StripPrefix(filename, prefix) ==
  IF Len(filename) > 0 /\ Head(filename) = prefix THEN Some(Tail(filename)) ELSE None

\* GeometryFromUrdf with a capsule taken for a cylinder and the locator of a mesh
\* kept whole.
GeometryFromUrdf_Untagged(geom) ==
  CASE geom.kind = "Box" ->
         [kind |-> "Primitive", shape |-> [kind |-> "Box", size |-> Map3(AsF32, geom.size)]]
    [] geom.kind \in {"Cylinder", "Capsule"} ->
         [kind |-> "Primitive",
          shape |-> [kind |-> "Cylinder", radius |-> AsF32(geom.radius),
                     length |-> AsF32(geom.length)]]
    [] geom.kind = "Sphere" ->
         [kind |-> "Primitive", shape |-> [kind |-> "Sphere", radius |-> AsF32(geom.radius)]]
    [] geom.kind = "Mesh" ->
         [kind |-> "Mesh", source |-> [kind |-> "Local", path |-> geom.filename],
          scale |-> IF geom.scale = None THEN None ELSE Some(Map3(AsF32, geom.scale[1]))]

GeometryFromUrdf(geom) ==
  CASE geom.kind = "Box" ->
         [kind |-> "Primitive", shape |-> [kind |-> "Box", size |-> Map3(AsF32, geom.size)]]
    [] geom.kind = "Cylinder" ->
         [kind |-> "Primitive",
          shape |-> [kind |-> "Cylinder", radius |-> AsF32(geom.radius),
                     length |-> AsF32(geom.length)]]
    [] geom.kind = "Capsule" ->
         [kind |-> "Primitive",
          shape |-> [kind |-> "Capsule", radius |-> AsF32(geom.radius),
                     length |-> AsF32(geom.length)]]
    [] geom.kind = "Sphere" ->
         [kind |-> "Primitive", shape |-> [kind |-> "Sphere", radius |-> AsF32(geom.radius)]]
    [] geom.kind = "Mesh" ->
         LET scale == IF geom.scale = None THEN None
                      ELSE Some(Map3(AsF32, geom.scale[1]))
             path == StripPrefix(geom.filename, PackagePrefix)
             source == IF path # None
                       THEN [kind |-> "Package", path |-> path[1]]
                       ELSE [kind |-> "Local", path |-> geom.filename]
         IN [kind |-> "Mesh", source |-> source, scale |-> scale]

AsUnvalidatedAssetPath(source) ==
  IF source.kind = "Package" THEN <<PackagePrefix>> \o source.path ELSE source.path

GeometryToUrdf(geometry) ==
  CASE geometry.kind = "Mesh" ->
         [kind |-> "Mesh",
          filename |-> AsUnvalidatedAssetPath(geometry.source),
          scale |-> IF geometry.scale = None THEN None
                    ELSE Some(Map3(AsF64, geometry.scale[1]))]
    [] geometry.kind = "Primitive" /\ geometry.shape.kind = "Box" ->
         [kind |-> "Box", size |-> Map3(AsF64, geometry.shape.size)]
    [] geometry.kind = "Primitive" /\ geometry.shape.kind = "Cylinder" ->
         [kind |-> "Cylinder", radius |-> AsF64(geometry.shape.radius),
          length |-> AsF64(geometry.shape.length)]
    [] geometry.kind = "Primitive" /\ geometry.shape.kind = "Capsule" ->
         [kind |-> "Capsule", radius |-> AsF64(geometry.shape.radius),
          length |-> AsF64(geometry.shape.length)]
    [] geometry.kind = "Primitive" /\ geometry.shape.kind = "Sphere" ->
         [kind |-> "Sphere", radius |-> AsF64(geometry.shape.radius)]

\* WorkcellModel::from_urdf_data, used for visuals and for collisions alike.
WorkcellModelFromUrdf(entry) ==
  [name |-> IF entry.name = None THEN <<>> ELSE entry.name[1],
   geometry |-> GeometryFromUrdf(entry.geometry),
   pose |-> PoseFromUrdf(entry.origin)]

(***************************************************************************)
(* Joint codec (joint.rs).                                                 *)
(***************************************************************************)
JointAxisFromUrdf(axis) == Map3(AsF32, axis)

JointAxisToUrdf(axis) == Map3(AsF64, axis)

RangeNone == [kind |-> "None"]

RangeSymmetric(l) == [kind |-> "Symmetric", l |-> l]

RangeAsymmetric(lower, upper) == [kind |-> "Asymmetric", lower |-> lower, upper |-> upper]

\* JointLimitsFromUrdf leaving the effort limit out.
JointLimitsFromUrdf_NoEffort(limit) ==
  [position |-> RangeAsymmetric(Some(AsF32(limit.lower)), Some(AsF32(limit.upper))),
   effort |-> RangeNone,
   velocity |-> RangeSymmetric(AsF32(limit.velocity))]

\* Lines 61-72.
JointLimitsFromUrdf(limit) ==
  [position |-> RangeAsymmetric(Some(AsF32(limit.lower)), Some(AsF32(limit.upper))),
   effort |-> RangeSymmetric(AsF32(limit.effort)),
   velocity |-> RangeSymmetric(AsF32(limit.velocity))]

DEFAULT_EFFORT_LIMIT == 1000

DEFAULT_VELOCITY_LIMIT == 10

\* min_or_default taking the first bound that is present, without sorting.
min_or_default_Unsorted(slice, default) ==
  IF slice[1] # None THEN AsF64(slice[1][1])
  ELSE IF slice[2] # None THEN AsF64(slice[2][1])
  ELSE default

\* The present bounds of the slice, widened; sorted ascending, the first is taken.
min_or_default(slice, default) ==
  LET vec == {AsF64(slice[i][1]) : i \in {k \in 1..2 : slice[k] # None}}
  IN IF vec = {} THEN default ELSE MinOf(vec)

UnwrapOrDefault(opt) == IF opt = None THEN 0 ELSE AsF64(opt[1])

\* JointLimitsToUrdf with the format's zero default for a missing effort or velocity
\* limit.
JointLimitsToUrdf_ZeroDefaults(limits) ==
  LET position ==
        CASE limits.position.kind = "None" -> <<0, 0>>
          [] limits.position.kind = "Symmetric" ->
               <<AsF64(limits.position.l), AsF64(limits.position.l)>>
          [] limits.position.kind = "Asymmetric" ->
               <<UnwrapOrDefault(limits.position.lower), UnwrapOrDefault(limits.position.upper)>>
      effort ==
        CASE limits.effort.kind = "None" -> 0
          [] limits.effort.kind = "Symmetric" -> AsF64(limits.effort.l)
          [] limits.effort.kind = "Asymmetric" ->
               min_or_default(<<limits.effort.lower, limits.effort.upper>>, DEFAULT_EFFORT_LIMIT)
      velocity ==
        CASE limits.velocity.kind = "None" -> 0
          [] limits.velocity.kind = "Symmetric" -> AsF64(limits.velocity.l)
          [] limits.velocity.kind = "Asymmetric" ->
               min_or_default(<<limits.velocity.lower, limits.velocity.upper>>,
                              DEFAULT_VELOCITY_LIMIT)
  IN [lower |-> position[1], upper |-> position[2], effort |-> effort, velocity |-> velocity]

JointLimitsToUrdf(limits) ==
  LET position ==
        CASE limits.position.kind = "None" -> <<0, 0>>
          [] limits.position.kind = "Symmetric" ->
               <<AsF64(limits.position.l), AsF64(limits.position.l)>>
          [] limits.position.kind = "Asymmetric" ->
               <<UnwrapOrDefault(limits.position.lower), UnwrapOrDefault(limits.position.upper)>>
      effort ==
        CASE limits.effort.kind = "None" -> DEFAULT_EFFORT_LIMIT
          [] limits.effort.kind = "Symmetric" -> AsF64(limits.effort.l)
          [] limits.effort.kind = "Asymmetric" ->
               min_or_default(<<limits.effort.lower, limits.effort.upper>>, DEFAULT_EFFORT_LIMIT)
      velocity ==
        CASE limits.velocity.kind = "None" -> DEFAULT_VELOCITY_LIMIT
          [] limits.velocity.kind = "Symmetric" -> AsF64(limits.velocity.l)
          [] limits.velocity.kind = "Asymmetric" ->
               min_or_default(<<limits.velocity.lower, limits.velocity.upper>>,
                              DEFAULT_VELOCITY_LIMIT)
  IN [lower |-> position[1], upper |-> position[2], effort |-> effort, velocity |-> velocity]

UrdfAxisDefault == <<2, 0, 0>>

UrdfJointLimitDefault == [lower |-> 0, upper |-> 0, effort |-> 0, velocity |-> 0]

SupportedJointTypes == {"Fixed", "Prismatic", "Revolute", "Continuous"}

(***************************************************************************)
(* The workcell document (workcell.rs).  Each of the five maps takes an id *)
(* to a Parented record: the parent id and the bundle.                     *)
(***************************************************************************)
Parented(parent, bundle) == [parent |-> parent, bundle |-> bundle]

Frame(anchor, name) == [anchor |-> anchor, name |-> name]

Workcell(name, id, frames, visuals, collisions, inertias, joints) ==
  [name |-> name, id |-> id, frames |-> frames, visuals |-> visuals,
   collisions |-> collisions, inertias |-> inertias, joints |-> joints]

BrokenJointReference(name) == [kind |-> "BrokenJointReference", name |-> name]

UnsupportedJointType == [kind |-> "UnsupportedJointType", name |-> <<>>]

\* u32::MAX, the parent of the synthesized root frame.  It is only ever compared for
\* equality; it is written as its 32-bit pattern read as a signed integer.
U32_MAX == -1

root_id == 0

\* The state of from_urdf's locals at its start (lines 111-118).
ImportStart ==
  [cur_id |-> 1, frame_name_to_id |-> EmptyMap, frames |-> EmptyMap, visuals |-> EmptyMap,
   collisions |-> EmptyMap, inertias |-> EmptyMap, joints |-> EmptyMap]

\* InsertModels with the records parented to the root instead of the link's frame.
InsertModels_RootParented(map, entries, first_id, frame_id) ==
  [id \in (DOMAIN map) \cup {first_id + k - 1 : k \in 1..Len(entries)} |->
     IF id \in DOMAIN map /\ ~(id \in first_id..(first_id + Len(entries) - 1))
     THEN map[id]
     ELSE Parented(root_id, WorkcellModelFromUrdf(entries[id - first_id + 1]))]

\* The loops of lines 145-155 and 156-166: one record per entry, ids in entry order.
InsertModels(map, entries, first_id, frame_id) ==
  [id \in (DOMAIN map) \cup {first_id + k - 1 : k \in 1..Len(entries)} |->
     IF id \in DOMAIN map /\ ~(id \in first_id..(first_id + Len(entries) - 1))
     THEN map[id]
     ELSE Parented(frame_id, WorkcellModelFromUrdf(entries[id - first_id + 1]))]

\* ImportLink with the inertia stored under the id of the frame.
ImportLink_SharedId(st, link) ==
  LET frame_id == st.cur_id
      visual_first == st.cur_id + 2
      collision_first == visual_first + Len(link.visual)
  IN [cur_id |-> collision_first + Len(link.collision),
      frame_name_to_id |-> Insert(st.frame_name_to_id, link.name, frame_id),
      frames |-> Insert(st.frames, frame_id,
                        Parented(root_id, Frame(AnchorPose3D(PoseDefault), link.name))),
      inertias |-> Insert(st.inertias, frame_id,
                          Parented(frame_id, InertiaFromUrdf(link.inertial))),
      visuals |-> InsertModels(st.visuals, link.visual, visual_first, frame_id),
      collisions |-> InsertModels(st.collisions, link.collision, collision_first, frame_id),
      joints |-> st.joints]

\* One iteration of the loop over links (lines 120-167).
ImportLink(st, link) ==
  LET inertia == InertiaFromUrdf(link.inertial)
      frame_id == st.cur_id
      inertia_id == st.cur_id + 1
      visual_first == st.cur_id + 2
      collision_first == visual_first + Len(link.visual)
  IN [cur_id |-> collision_first + Len(link.collision),
      frame_name_to_id |-> Insert(st.frame_name_to_id, link.name, frame_id),
      frames |-> Insert(st.frames, frame_id,
                        Parented(root_id, Frame(AnchorPose3D(PoseDefault), link.name))),
      inertias |-> Insert(st.inertias, inertia_id, Parented(frame_id, inertia)),
      visuals |-> InsertModels(st.visuals, link.visual, visual_first, frame_id),
      collisions |-> InsertModels(st.collisions, link.collision, collision_first, frame_id),
      joints |-> st.joints]

RECURSIVE ImportLinks(_, _, _)
ImportLinks(st, links, i) ==
  IF i > Len(links) THEN st ELSE ImportLinks(ImportLink(st, links[i]), links, i + 1)

\* JointPropertiesFromUrdf with any other type taken as Fixed.
JointPropertiesFromUrdf_Lenient(joint) ==
  IF joint.joint_type \in {"Revolute", "Prismatic", "Continuous"}
  THEN Some([kind |-> joint.joint_type,
             axis |-> JointAxisFromUrdf(joint.axis),
             limits |-> JointLimitsFromUrdf(joint.limit)])
  ELSE Some([kind |-> "Fixed"])

\* The match of lines 175-192: the joint properties, or None for an unsupported type.
JointPropertiesFromUrdf(joint) ==
  CASE joint.joint_type \in {"Revolute", "Prismatic", "Continuous"} ->
         Some([kind |-> joint.joint_type,
               axis |-> JointAxisFromUrdf(joint.axis),
               limits |-> JointLimitsFromUrdf(joint.limit)])
    [] joint.joint_type = "Fixed" -> Some([kind |-> "Fixed"])
    [] OTHER -> None

\* ImportJoint leaving alone a child frame that a joint has already taken.
ImportJoint_FirstWins(st, joint) ==
  IF ~(joint.parent \in DOMAIN st.frame_name_to_id)
  THEN Err(BrokenJointReference(joint.parent))
  ELSE IF ~(joint.child \in DOMAIN st.frame_name_to_id)
  THEN Err(BrokenJointReference(joint.child))
  ELSE IF JointPropertiesFromUrdf(joint) = None
  THEN Err(UnsupportedJointType)
  ELSE LET child == st.frame_name_to_id[joint.child]
       IN Ok([st EXCEPT !.cur_id = st.cur_id + 1,
                        !.frames = IF st.frames[child].parent # root_id THEN st.frames
                                   ELSE Insert(st.frames, child,
                                               Parented(st.cur_id,
                                                        Frame(AnchorPose3D(
                                                                PoseFromUrdf(joint.origin)),
                                                              joint.child))),
                        !.joints = Insert(st.joints, st.cur_id,
                                          Parented(st.frame_name_to_id[joint.parent],
                                                   [name |-> joint.name,
                                                    properties |->
                                                      JointPropertiesFromUrdf(joint)[1]]))])

\* ImportJoint with the child link looked up before the parent link.
ImportJoint_ChildFirst(st, joint) ==
  IF ~(joint.child \in DOMAIN st.frame_name_to_id)
  THEN Err(BrokenJointReference(joint.child))
  ELSE IF ~(joint.parent \in DOMAIN st.frame_name_to_id)
  THEN Err(BrokenJointReference(joint.parent))
  ELSE IF JointPropertiesFromUrdf(joint) = None
  THEN Err(UnsupportedJointType)
  ELSE Ok([st EXCEPT !.cur_id = st.cur_id + 1,
                     !.frames = Insert(st.frames, st.frame_name_to_id[joint.child],
                                       Parented(st.cur_id,
                                                Frame(AnchorPose3D(PoseFromUrdf(joint.origin)),
                                                      joint.child))),
                     !.joints = Insert(st.joints, st.cur_id,
                                       Parented(st.frame_name_to_id[joint.parent],
                                                [name |-> joint.name,
                                                 properties |->
                                                   JointPropertiesFromUrdf(joint)[1]]))])

\* ImportJoint with the joint type matched before the link names are resolved.
ImportJoint_TypeFirst(st, joint) ==
  IF JointPropertiesFromUrdf(joint) = None
  THEN Err(UnsupportedJointType)
  ELSE IF ~(joint.parent \in DOMAIN st.frame_name_to_id)
  THEN Err(BrokenJointReference(joint.parent))
  ELSE IF ~(joint.child \in DOMAIN st.frame_name_to_id)
  THEN Err(BrokenJointReference(joint.child))
  ELSE Ok([st EXCEPT !.cur_id = st.cur_id + 1,
                     !.frames = Insert(st.frames, st.frame_name_to_id[joint.child],
                                       Parented(st.cur_id,
                                                Frame(AnchorPose3D(PoseFromUrdf(joint.origin)),
                                                      joint.child))),
                     !.joints = Insert(st.joints, st.cur_id,
                                       Parented(st.frame_name_to_id[joint.parent],
                                                [name |-> joint.name,
                                                 properties |->
                                                   JointPropertiesFromUrdf(joint)[1]]))])

\* One iteration of the loop over joints (lines 168-212): Ok(new locals) or the error.
ImportJoint(st, joint) ==
  IF ~(joint.parent \in DOMAIN st.frame_name_to_id)
  THEN Err(BrokenJointReference(joint.parent))
  ELSE IF ~(joint.child \in DOMAIN st.frame_name_to_id)
  THEN Err(BrokenJointReference(joint.child))
  ELSE LET parent == st.frame_name_to_id[joint.parent]
           child == st.frame_name_to_id[joint.child]
           properties == JointPropertiesFromUrdf(joint)
           joint_id == st.cur_id
           child_frame == Parented(joint_id,
                                   Frame(AnchorPose3D(PoseFromUrdf(joint.origin)),
                                         st.frames[child].bundle.name))
       IN IF properties = None
          THEN Err(UnsupportedJointType)
          ELSE Ok([st EXCEPT !.cur_id = joint_id + 1,
                             !.frames = Insert(st.frames, child, child_frame),
                             !.joints = Insert(st.joints, joint_id,
                                               Parented(parent,
                                                        [name |-> joint.name,
                                                         properties |-> properties[1]]))])

RECURSIVE ImportJoints(_, _, _)
ImportJoints(st, joints, i) ==
  IF i > Len(joints) THEN Ok(st)
  ELSE LET r == ImportJoint(st, joints[i])
       IN IF r.tag = "Err" THEN r ELSE ImportJoints(r.value, joints, i + 1)

\* from_urdf with every frame left under the root.
from_urdf_FlatFrames(u) ==
  LET r == ImportJoints(ImportLinks(ImportStart, u.links, 1), u.joints, 1)
  IN IF r.tag = "Err" THEN r
     ELSE Ok(Workcell(u.name, root_id,
                      [f \in DOMAIN r.value.frames |->
                         Parented(root_id, r.value.frames[f].bundle)],
                      r.value.visuals, r.value.collisions, r.value.inertias, r.value.joints))

\* Workcell::from_urdf: Ok(document) or Err(UrdfImportError).
from_urdf(u) ==
  LET r == ImportJoints(ImportLinks(ImportStart, u.links, 1), u.joints, 1)
  IN IF r.tag = "Err" THEN r
     ELSE Ok(Workcell(u.name, root_id, r.value.frames, r.value.visuals,
                      r.value.collisions, r.value.inertias, r.value.joints))

(***************************************************************************)
(* Workcell::to_urdf (lines 234-400).                                      *)
(***************************************************************************)
InvalidAnchorType(anchor) == [kind |-> "InvalidAnchorType", anchor |-> anchor, id |-> 0]

BrokenReference(id) == [kind |-> "BrokenReference", anchor |-> <<>>, id |-> id]

WorkcellLinkSuffix == "_workcell_link"

\* The entries of a map whose parent is the given id, by ascending id: what the
\* loops of lines 236-249 and 252-264 push under that parent.
RECURSIVE ChildrenOf(_, _, _)
ChildrenOf(map, ids, parent) ==
  IF ids = <<>> THEN <<>>
  ELSE (IF map[Head(ids)].parent = parent THEN <<map[Head(ids)].bundle>> ELSE <<>>)
       \o ChildrenOf(map, Tail(ids), parent)

UrdfVisual(model) ==
  [name |-> Some(model.name), origin |-> PoseToUrdf(model.pose),
   geometry |-> GeometryToUrdf(model.geometry)]

UrdfCollision(model) ==
  [name |-> Some(model.name), origin |-> PoseToUrdf(model.pose),
   geometry |-> GeometryToUrdf(model.geometry)]

parent_to_visuals(self, parent) ==
  LET models == ChildrenOf(self.visuals, Ascending(DOMAIN self.visuals), parent)
  IN [k \in 1..Len(models) |-> UrdfVisual(models[k])]

parent_to_collisions(self, parent) ==
  LET models == ChildrenOf(self.collisions, Ascending(DOMAIN self.collisions), parent)
  IN [k \in 1..Len(models) |-> UrdfCollision(models[k])]

\* parent_to_inertials keeping the first inertia inserted under a parent.
parent_to_inertials_First(self, parent) ==
  LET inertias == ChildrenOf(self.inertias, Ascending(DOMAIN self.inertias), parent)
  IN IF inertias = <<>> THEN UrdfInertialDefault
     ELSE InertialToUrdf(inertias[1])

\* Lines 303-309 and 317: the map is overwritten in ascending id order, so the
\* inertia of greatest id under a parent is the one kept; none gives the default.
parent_to_inertials(self, parent) ==
  LET inertias == ChildrenOf(self.inertias, Ascending(DOMAIN self.inertias), parent)
  IN IF inertias = <<>> THEN UrdfInertialDefault
     ELSE InertialToUrdf(inertias[Len(inertias)])

num_children(self) == Cardinality({id \in DOMAIN self.frames : self.frames[id].parent = self.id})

\* dummy_frame named after the document alone.
dummy_frame_Unsuffixed(self) ==
  Frame(AnchorPose3D(Pose(<<0, 0, 0>>, RotQuat(<<0, 0, 0, 0>>))), self.name)

dummy_frame(self) ==
  Frame(AnchorPose3D(Pose(<<0, 0, 0>>, RotQuat(<<0, 0, 0, 0>>))),
        self.name \o <<WorkcellLinkSuffix>>)

\* ExportFrames without the synthesis of the root frame.
ExportFrames_NoSynthesis(self) == self.frames

\* Lines 273-301: the frames that become links.
ExportFrames(self) ==
  IF num_children(self) # 1
  THEN Insert(self.frames, self.id, Parented(U32_MAX, dummy_frame(self)))
  ELSE self.frames

\* ExportLinks with the root frame added whatever the number of root children.
ExportLinks_AlwaysRooted(self) ==
  LET frames == Insert(self.frames, self.id, Parented(U32_MAX, dummy_frame(self)))
      ids == Ascending(DOMAIN frames)
  IN [k \in 1..Len(ids) |->
        [name |-> frames[ids[k]].bundle.name,
         inertial |-> parent_to_inertials(self, ids[k]),
         collision |-> parent_to_collisions(self, ids[k]),
         visual |-> parent_to_visuals(self, ids[k])]]

\* Lines 313-328: one link per frame, by ascending frame id.
ExportLinks(self) ==
  LET frames == ExportFrames(self)
      ids == Ascending(DOMAIN frames)
  IN [k \in 1..Len(ids) |->
        [name |-> frames[ids[k]].bundle.name,
         inertial |-> parent_to_inertials(self, ids[k]),
         collision |-> parent_to_collisions(self, ids[k]),
         visual |-> parent_to_visuals(self, ids[k])]]

\* Lines 353-374.
JointPropertiesToUrdf(properties) ==
  IF properties.kind = "Fixed"
  THEN [joint_type |-> "Fixed", axis |-> UrdfAxisDefault, limit |-> UrdfJointLimitDefault]
  ELSE [joint_type |-> properties.kind,
        axis |-> JointAxisToUrdf(properties.axis),
        limit |-> JointLimitsToUrdf(properties.limits)]

\* FindChildFrame taking the frame of greatest id.
FindChildFrame_Last(self, joint_id) ==
  LET found == {id \in DOMAIN self.frames : self.frames[id].parent = joint_id}
  IN IF found = {} THEN None
     ELSE Some(self.frames[CHOOSE m \in found : \A o \in found : o <= m])

\* Lines 341-345: the frame of least id whose parent is the joint, if any.
FindChildFrame(self, joint_id) ==
  LET found == {id \in DOMAIN self.frames : self.frames[id].parent = joint_id}
  IN IF found = {} THEN None ELSE Some(self.frames[MinOf(found)])

\* ExportJoint looking for the child frame before the parent frame.
ExportJoint_ChildFirst(self, joint_id) ==
  LET parented_joint == self.joints[joint_id]
      joint_parent == parented_joint.parent
      joint == parented_joint.bundle
      child_frame == FindChildFrame(self, joint_id)
  IN IF child_frame = None
     THEN Err(BrokenReference(joint_id))
     ELSE IF ~(joint_parent \in DOMAIN self.frames)
     THEN Err(BrokenReference(joint_parent))
     ELSE IF child_frame[1].bundle.anchor.kind # "Pose3D"
     THEN Err(InvalidAnchorType(child_frame[1].bundle.anchor))
     ELSE LET converted == JointPropertiesToUrdf(joint.properties)
          IN Ok([name |-> joint.name,
                 joint_type |-> converted.joint_type,
                 origin |-> PoseToUrdf(child_frame[1].bundle.anchor.pose),
                 parent |-> self.frames[joint_parent].bundle.name,
                 child |-> child_frame[1].bundle.name,
                 axis |-> converted.axis,
                 limit |-> converted.limit])

\* ExportJoint with the parent looked up among the frames that become links, the
\* synthesized root frame included.
ExportJoint_RootedParent(self, joint_id) ==
  LET parented_joint == self.joints[joint_id]
      joint_parent == parented_joint.parent
      joint == parented_joint.bundle
      child_frame == FindChildFrame(self, joint_id)
  IN IF ~(joint_parent \in DOMAIN ExportFrames(self))
     THEN Err(BrokenReference(joint_parent))
     ELSE IF child_frame = None
     THEN Err(BrokenReference(joint_id))
     ELSE IF child_frame[1].bundle.anchor.kind # "Pose3D"
     THEN Err(InvalidAnchorType(child_frame[1].bundle.anchor))
     ELSE LET converted == JointPropertiesToUrdf(joint.properties)
          IN Ok([name |-> joint.name,
                 joint_type |-> converted.joint_type,
                 origin |-> PoseToUrdf(child_frame[1].bundle.anchor.pose),
                 parent |-> ExportFrames(self)[joint_parent].bundle.name,
                 child |-> child_frame[1].bundle.name,
                 axis |-> converted.axis,
                 limit |-> converted.limit])

\* The closure of lines 333-389 for one joint: Ok(urdf joint) or the error.
ExportJoint(self, joint_id) ==
  LET parented_joint == self.joints[joint_id]
      joint_parent == parented_joint.parent
      joint == parented_joint.bundle
      child_frame == FindChildFrame(self, joint_id)
  IN IF ~(joint_parent \in DOMAIN self.frames)
     THEN Err(BrokenReference(joint_parent))
     ELSE IF child_frame = None
     THEN Err(BrokenReference(joint_id))
     ELSE IF child_frame[1].bundle.anchor.kind # "Pose3D"
     THEN Err(InvalidAnchorType(child_frame[1].bundle.anchor))
     ELSE LET converted == JointPropertiesToUrdf(joint.properties)
          IN Ok([name |-> joint.name,
                 joint_type |-> converted.joint_type,
                 origin |-> PoseToUrdf(child_frame[1].bundle.anchor.pose),
                 parent |-> self.frames[joint_parent].bundle.name,
                 child |-> child_frame[1].bundle.name,
                 axis |-> converted.axis,
                 limit |-> converted.limit])

\* collect::<Result<Vec<_>, _>>() of line 390: the joints by ascending id, or the
\* error of the first joint that fails.
RECURSIVE ExportJoints(_, _, _)
ExportJoints(self, ids, acc) ==
  IF ids = <<>> THEN Ok(acc)
  ELSE LET r == ExportJoint(self, Head(ids))
       IN IF r.tag = "Err" THEN r ELSE ExportJoints(self, Tail(ids), Append(acc, r.value))

\* to_urdf converting the joints by descending id.
to_urdf_Descending(self) ==
  LET links == ExportLinks(self)
      ids == Ascending(DOMAIN self.joints)
      joints == ExportJoints(self, [k \in 1..Len(ids) |-> ids[Len(ids) + 1 - k]], <<>>)
  IN IF joints.tag = "Err" THEN joints
     ELSE Ok([name |-> self.name, links |-> links, joints |-> joints.value])

\* Workcell::to_urdf: Ok(urdf_rs::Robot) or Err(WorkcellToUrdfError).
to_urdf(self) ==
  LET links == ExportLinks(self)
      joints == ExportJoints(self, Ascending(DOMAIN self.joints), <<>>)
  IN IF joints.tag = "Err" THEN joints
     ELSE Ok([name |-> self.name, links |-> links, joints |-> joints.value])

(***************************************************************************)
(* URDF inputs.  The names of the links, and the type and the link names   *)
(* of each joint, are chosen freely; the payload of the k-th link and of   *)
(* the k-th joint is fixed by k, so that payloads differ between entries.  *)
(***************************************************************************)
RobotName == <<"physics">>

LinkNames == {<<"a">>, <<"b">>}

\* A joint names a link of LinkNames, or "x", which no link is called.
ReferencedNames == LinkNames \cup {<<"x">>}

JointTypes == SupportedJointTypes \cup {"Floating"}

PoseSample(k) == UrdfPose(<<2 * k, 0, 2 * (k + 1)>>, <<0, 2 * k, -2>>)

GeometrySample(k) ==
  CASE k % 6 = 0 -> [kind |-> "Box", size |-> <<2, 4, 2 * k>>]
    [] k % 6 = 1 -> [kind |-> "Cylinder", radius |-> 2 * k, length |-> 4]
    [] k % 6 = 2 -> [kind |-> "Capsule", radius |-> 2, length |-> 2 * k]
    [] k % 6 = 3 -> [kind |-> "Sphere", radius |-> 2 * k]
    [] k % 6 = 4 -> [kind |-> "Mesh", filename |-> <<PackagePrefix, "pkg/m.stl">>,
                     scale |-> Some(<<2, 2, 2 * k>>)]
    [] k % 6 = 5 -> [kind |-> "Mesh", filename |-> <<"/tmp/m.stl">>, scale |-> None]

EntrySample(k) ==
  [name |-> IF k % 2 = 0 THEN None ELSE Some(<<"entry", ToString(k)>>),
   origin |-> PoseSample(k + 1),
   geometry |-> GeometrySample(k)]

LinkSample(k, name) ==
  [name |-> name,
   inertial |-> [origin |-> PoseSample(k + 2),
                 mass |-> 20 * k,
                 inertia |-> [ixx |-> 2 * k, ixy |-> 2, ixz |-> 0,
                              iyy |-> 4 * k, iyz |-> -2, izz |-> 6 * k]],
   visual |-> [n \in 1..(k % 3) |-> EntrySample(3 * k + n)],
   collision |-> [n \in 1..((k + 1) % 3) |-> EntrySample(5 * k + n + 1)]]

JointSample(k, type, parent, child) ==
  [name |-> <<"joint", ToString(k)>>,
   joint_type |-> type,
   origin |-> PoseSample(k + 4),
   parent |-> parent,
   child |-> child,
   axis |-> <<2 * k, 2, 0>>,
   limit |-> [lower |-> -2 * k, upper |-> 4 * k, effort |-> 2 * k + 2,
              velocity |-> 2 * k + 6]]

\* Link names are arbitrary strings that the code only compares with each other, so
\* the first link is called "a" without loss of generality.
LinkNameLists(n) == {f \in [1..n -> LinkNames] : n = 0 \/ f[1] = <<"a">>}

Links(names) == [k \in 1..Len(names) |-> LinkSample(k, names[k])]

\* A joint's type and link names.  A Fixed joint and a joint of unsupported type take
\* every pair of link names; the three single-axis types, which the code treats like
\* each other and, for the link names, like Fixed, join "a" to "b".
JointChoices ==
  ({"Fixed", "Floating"} \X ReferencedNames \X ReferencedNames)
  \cup (JointTypes \X {<<"a">>} \X {<<"b">>})

Joints(c) == [k \in 1..Len(c) |-> JointSample(k, c[k][1], c[k][2], c[k][3])]

Robot(names, c) == [name |-> RobotName, links |-> Links(names), joints |-> Joints(c)]

(***************************************************************************)
(* The editor's workspace loading (rmf_workcell_editor/src/workspace.rs).  *)
(* The bytes of a file are modelled by what the decoders make of them:     *)
(* bytes that are not UTF-8, text that is neither format, the JSON of a    *)
(* workcell document, or the XML of a URDF robot.                          *)
(***************************************************************************)
WorkcellDefault == Workcell(<<>>, 0, EmptyMap, EmptyMap, EmptyMap, EmptyMap, EmptyMap)

EditorJointChoices ==
  {<<"Fixed", <<"a">>, <<"a">>>>, <<"Fixed", <<"a">>, <<"x">>>>, <<"Floating", <<"a">>, <<"a">>>>}

EditorRobots ==
  {Robot(names, c) : names \in LinkNameLists(1),
                     c \in [1..0 -> EditorJointChoices] \cup [1..1 -> EditorJointChoices]}

FileContents ==
  {[kind |-> "binary", value |-> <<>>], [kind |-> "text", value |-> <<>>],
   [kind |-> "workcell_json", value |-> WorkcellDefault]}
  \cup {[kind |-> "urdf_xml", value |-> r] : r \in EditorRobots}

WorkspaceDatas == {[kind |-> k, data |-> c] : k \in {"Workcell", "WorkcellUrdf"}, c \in FileContents}

DefaultFiles == {None, Some(<<"file.urdf">>)}

\* Workcell::from_bytes (serde_json): the document the bytes encode, or a parse error.
from_bytes(data) ==
  IF data.kind = "workcell_json" THEN Ok(data.value) ELSE Err([kind |-> "serde_json"])

\* std::str::from_utf8.
from_utf8(data) == IF data.kind = "binary" THEN Err([kind |-> "Utf8Error"]) ELSE Ok(data)

\* urdf_rs::read_from_string: the robot the text describes, or a parse error.
read_from_string(utf) ==
  IF utf.kind = "urdf_xml" THEN Ok(utf.value) ELSE Err([kind |-> "UrdfError"])

LoadWorkcell(wc, default_file) == [workcell |-> wc, focus |-> TRUE, default_file |-> default_file]

\* CurrentWorkspace, by its fields and the change flag of the resource: a resource
\* counts as changed for a system until the system has run after the change.
CurrentWorkspace(root, display, changed) ==
  [root |-> root, display |-> display, changed |-> changed]

\* The entities that can be workspace roots.  Entity 3 has no Visibility component.
Entities == {1, 2, 3}

VisibleEntities == {1, 2}

\* WorkspacePlugin::build (lines 139-162): the resources at their defaults, the
\* channel and the event queues empty.
WorkspaceInit ==
  /\ current_workspace = CurrentWorkspace(None, FALSE, TRUE)
  /\ recall = None
  /\ visibility = [e \in VisibleEntities |-> "Inherited"]
  /\ default_files = EmptyMap
  /\ save_events = <<>>
  /\ dialogs = <<>>
  /\ save_channel = <<>>
  /\ save_workcell = <<>>
  /\ step = "build"

EditorInit ==
  /\ app_state = "MainMenu"
  /\ next_app_state = None
  /\ interaction_state = "Disable"
  /\ next_interaction_state = None
  /\ load_workcell = <<>>
  /\ request = None
  /\ handled = 0
  /\ WorkspaceInit

(***************************************************************************)
(* Import of a URDF and export of the imported document.                   *)
(***************************************************************************)
Init ==
  /\ pc = "start"
  /\ \E n \in 0..MaxLinks, m \in 0..MaxJoints :
       \E names \in LinkNameLists(n), c \in [1..m -> JointChoices] :
         urdf = Robot(names, c)
  /\ workcell = NotRun
  /\ robot = NotRun
  /\ EditorInit

Import ==
  /\ pc = "start"
  /\ workcell' = from_urdf(urdf)
  /\ pc' = "imported"
  /\ UNCHANGED <<urdf, robot, editorVars>>

Export ==
  /\ pc = "imported"
  /\ workcell.tag = "Ok"
  /\ robot' = to_urdf(workcell.value)
  /\ pc' = "exported"
  /\ UNCHANGED <<urdf, workcell, editorVars>>

Next == Import \/ Export

Spec == Init /\ [][Next]_vars

(***************************************************************************)
(* The editor handling LoadWorkspaceFile requests.                         *)
(***************************************************************************)
InitEditor ==
  /\ pc = "idle"
  /\ urdf = Robot(<<>>, <<>>)
  /\ workcell = NotRun
  /\ robot = NotRun
  /\ EditorInit

\* Lines 199-207 and 225-232: switch to the editor and send the document.
SwitchToEditor(wc, default_file) ==
  /\ next_app_state' = Some("WorkcellEditor")
  /\ load_workcell' = Append(load_workcell, LoadWorkcell(wc, default_file))
  /\ next_interaction_state' = Some("Enable")

NothingLoaded == UNCHANGED <<next_app_state, load_workcell, next_interaction_state>>

\* process_load_workspace_files with from_urdf's error taken as a success of the
\* default document.
process_load_workspace_files_Lenient(default_file, data) ==
  /\ handled < MaxLoads
  /\ handled' = handled + 1
  /\ request' = Some([default_file |-> default_file, data |-> data])
  /\ IF data.kind = "Workcell"
     THEN IF from_bytes(data.data).tag = "Ok"
          THEN SwitchToEditor(from_bytes(data.data).value, default_file)
          ELSE NothingLoaded
     ELSE IF from_utf8(data.data).tag = "Ok" /\ read_from_string(data.data).tag = "Ok"
          THEN SwitchToEditor(WorkcellDefault, default_file)
          ELSE NothingLoaded
  /\ UNCHANGED <<app_state, interaction_state, conversionVars, workspaceVars>>

\* process_load_workspace_files (lines 187-245), handling one request.
process_load_workspace_files(default_file, data) ==
  /\ handled < MaxLoads
  /\ handled' = handled + 1
  /\ request' = Some([default_file |-> default_file, data |-> data])
  /\ CASE data.kind = "Workcell" ->
            LET r == from_bytes(data.data)
            IN IF r.tag = "Ok" THEN SwitchToEditor(r.value, default_file) ELSE NothingLoaded
       [] data.kind = "WorkcellUrdf" ->
            LET utf == from_utf8(data.data)
            IN IF utf.tag = "Err" THEN NothingLoaded
               ELSE LET parsed == read_from_string(utf.value)
                    IN IF parsed.tag = "Err" THEN NothingLoaded
                       ELSE LET r == from_urdf(parsed.value)
                            IN IF r.tag = "Ok" THEN SwitchToEditor(r.value, default_file)
                               ELSE NothingLoaded
  /\ UNCHANGED <<app_state, interaction_state, conversionVars, workspaceVars>>

ProcessLoad == \E default_file \in DefaultFiles, data \in WorkspaceDatas :
                 process_load_workspace_files(default_file, data)

\* The engine's state transition: each pending NextState becomes the state.
ApplyStateTransition ==
  /\ next_app_state # None \/ next_interaction_state # None
  /\ app_state' = IF next_app_state # None THEN next_app_state[1] ELSE app_state
  /\ interaction_state' =
       IF next_interaction_state # None THEN next_interaction_state[1] ELSE interaction_state
  /\ next_app_state' = None
  /\ next_interaction_state' = None
  /\ UNCHANGED <<load_workcell, request, handled, conversionVars, workspaceVars>>

NextEditor == ProcessLoad \/ ApplyStateTransition

SpecEditor == InitEditor /\ [][NextEditor]_vars

(***************************************************************************)
(* Saving (workspace.rs, lines 403-477).  SaveWorkspace events are sent by *)
(* the menu and by other plugins; dispatch_save_workspace_events turns     *)
(* each into a SaveWorkspaceFile on the channel or into a file dialog, and *)
(* workspace_file_save_complete takes one SaveWorkspaceFile per run.       *)
(***************************************************************************)
MaxSaves == 2

ExportFormats == {"Default", "Urdf"}

DestinationDefaultFile == [kind |-> "DefaultFile", path |-> <<>>]

DestinationDialog == [kind |-> "Dialog", path |-> <<>>]

DestinationPath(path) == [kind |-> "Path", path |-> path]

SaveWorkspaceDestinations ==
  {DestinationDefaultFile, DestinationDialog, DestinationPath(<<"given.urdf">>)}

SaveWorkspace(destination, format) == [destination |-> destination, format |-> format]

SaveWorkspaceFile(path, format, root) == [path |-> path, format |-> format, root |-> root]

SaveWorkcell(root, to_file, format) == [root |-> root, to_file |-> to_file, format |-> format]

\* The number of save requests on their way, in any form.
SavesInFlight == Len(save_events) + Len(dialogs) + Len(save_channel) + Len(save_workcell)

saveVars == <<save_events, dialogs, save_channel, save_workcell>>

notWorkspaceVars == <<conversionVars, next_app_state, interaction_state,
                      next_interaction_state, load_workcell, request, handled>>

\* menu_bar.rs:79 and 85, and any plugin that sends the public event.
SendSaveWorkspace ==
  /\ SavesInFlight < MaxSaves
  /\ \E destination \in SaveWorkspaceDestinations, format \in ExportFormats :
       save_events' = Append(save_events, SaveWorkspace(destination, format))
  /\ step' = "send"
  /\ UNCHANGED <<dialogs, save_channel, save_workcell, current_workspace, recall,
                 visibility, default_files, app_state, notWorkspaceVars>>

\* The handling of a LoadWorkcell event (sent at lines 203, 226 and 176): the loaded
\* workspace becomes the current one and has the DefaultFile of the event, if any.
LoadWorkcellHandled ==
  /\ \E root \in VisibleEntities, default_file \in DefaultFiles :
       /\ current_workspace' = CurrentWorkspace(Some(root), TRUE, TRUE)
       /\ default_files' = IF default_file = None THEN default_files
                           ELSE Insert(default_files, root, default_file[1])
  /\ step' = "load"
  /\ UNCHANGED <<saveVars, recall, visibility, app_state, notWorkspaceVars>>

\* The state transition that lines 199 and 225 ask for.
EnterWorkcellEditor ==
  /\ app_state = "MainMenu"
  /\ app_state' = "WorkcellEditor"
  /\ step' = "transition"
  /\ UNCHANGED <<saveVars, current_workspace, recall, visibility, default_files,
                 notWorkspaceVars>>

\* The body of the loop of lines 420-456 for one event, the workspace root known.
DispatchOne(state, event, ws_root) ==
  CASE event.destination.kind = "DefaultFile" ->
         IF ws_root \in DOMAIN default_files
         THEN [state EXCEPT !.channel =
                 Append(@, SaveWorkspaceFile(default_files[ws_root], event.format, ws_root))]
         ELSE [state EXCEPT !.dialogs = Append(@, [format |-> event.format, root |-> ws_root])]
    [] event.destination.kind = "Dialog" ->
         [state EXCEPT !.dialogs = Append(@, [format |-> event.format, root |-> ws_root])]
    [] event.destination.kind = "Path" ->
         [state EXCEPT !.channel =
            Append(@, SaveWorkspaceFile(event.destination.path, event.format, ws_root))]

RECURSIVE DispatchAll(_, _, _)
DispatchAll(state, events, ws_root) ==
  IF events = <<>> THEN state
  ELSE DispatchAll(DispatchOne(state, Head(events), ws_root), Tail(events), ws_root)

\* dispatch_save_workspace_events (lines 403-457), run with events to read.  With
\* no workspace the loop returns at the first event, which alone has been read.
dispatch_save_workspace_events ==
  /\ save_events # <<>>
  /\ IF current_workspace.root # None
     THEN LET done == DispatchAll([channel |-> save_channel, dialogs |-> dialogs],
                                  save_events, current_workspace.root[1])
          IN /\ save_channel' = done.channel
             /\ dialogs' = done.dialogs
             /\ save_events' = <<>>
     ELSE /\ save_events' = Tail(save_events)
          /\ UNCHANGED <<save_channel, dialogs>>
  /\ step' = "dispatch_save_workspace_events"
  /\ UNCHANGED <<save_workcell, current_workspace, recall, visibility, default_files,
                 app_state, notWorkspaceVars>>

\* The task of lines 409-418 when the user chooses a file: the request is sent.
DialogFileChosen ==
  /\ \E k \in 1..Len(dialogs) :
       /\ save_channel' = Append(save_channel,
                                 SaveWorkspaceFile(<<"chosen.workcell.json">>,
                                                   dialogs[k].format, dialogs[k].root))
       /\ dialogs' = [n \in 1..(Len(dialogs) - 1) |->
                        IF n < k THEN dialogs[n] ELSE dialogs[n + 1]]
  /\ step' = "dialog"
  /\ UNCHANGED <<save_events, save_workcell, current_workspace, recall, visibility,
                 default_files, app_state, notWorkspaceVars>>

\* The task of lines 409-418 when the user closes the dialog: nothing is sent.
DialogCancelled ==
  /\ \E k \in 1..Len(dialogs) :
       dialogs' = [n \in 1..(Len(dialogs) - 1) |->
                     IF n < k THEN dialogs[n] ELSE dialogs[n + 1]]
  /\ step' = "dialog"
  /\ UNCHANGED <<save_events, save_channel, save_workcell, current_workspace, recall,
                 visibility, default_files, app_state, notWorkspaceVars>>

\* workspace_file_save_complete emitting whatever the app state.
workspace_file_save_complete_AnyState ==
  /\ save_channel # <<>>
  /\ save_channel' = Tail(save_channel)
  /\ save_workcell' = Append(save_workcell,
                             SaveWorkcell(Head(save_channel).root, Head(save_channel).path,
                                          Head(save_channel).format))
  /\ step' = "workspace_file_save_complete"
  /\ UNCHANGED <<save_events, dialogs, current_workspace, recall, visibility,
                 default_files, app_state, notWorkspaceVars>>

\* workspace_file_save_complete (lines 460-477), run with a request to receive.
workspace_file_save_complete ==
  /\ save_channel # <<>>
  /\ save_channel' = Tail(save_channel)
  /\ save_workcell' =
       IF app_state = "WorkcellEditor"
       THEN Append(save_workcell,
                   SaveWorkcell(Head(save_channel).root, Head(save_channel).path,
                                Head(save_channel).format))
       ELSE save_workcell
  /\ step' = "workspace_file_save_complete"
  /\ UNCHANGED <<save_events, dialogs, current_workspace, recall, visibility,
                 default_files, app_state, notWorkspaceVars>>

\* The reader of the SaveWorkcell events takes them all.
ReadSaveWorkcell ==
  /\ save_workcell # <<>>
  /\ save_workcell' = <<>>
  /\ step' = "save"
  /\ UNCHANGED <<save_events, dialogs, save_channel, current_workspace, recall,
                 visibility, default_files, app_state, notWorkspaceVars>>

NextSave ==
  \/ SendSaveWorkspace
  \/ LoadWorkcellHandled
  \/ EnterWorkcellEditor
  \/ dispatch_save_workspace_events
  \/ DialogFileChosen
  \/ DialogCancelled
  \/ workspace_file_save_complete
  \/ ReadSaveWorkcell

SpecSave == InitEditor /\ [][NextSave]_vars

(***************************************************************************)
(* Visibility of the workspaces (workspace.rs, lines 479-507).  The        *)
(* current workspace is changed, and the Visibility of an entity is set,   *)
(* by systems outside this file; sync_workspace_visibility runs each       *)
(* update.                                                                 *)
(***************************************************************************)
visibilityVars == <<current_workspace, recall, visibility>>

notVisibilityVars == <<conversionVars, app_state, next_app_state, interaction_state,
                       next_interaction_state, load_workcell, request, handled,
                       default_files, saveVars>>

\* A write to the CurrentWorkspace resource: any root or none, shown or not.
ChangeCurrentWorkspace ==
  /\ \E root \in {None} \cup {Some(e) : e \in Entities}, display \in BOOLEAN :
       current_workspace' = CurrentWorkspace(root, display, TRUE)
  /\ step' = "change"
  /\ UNCHANGED <<recall, visibility, notVisibilityVars>>

\* interaction/mod.rs:158-166, set_visibility.
set_visibility ==
  /\ \E entity \in DOMAIN visibility, visible \in BOOLEAN :
       visibility' = [visibility EXCEPT ![entity] = IF visible THEN "Inherited" ELSE "Hidden"]
  /\ step' = "set_visibility"
  /\ UNCHANGED <<current_workspace, recall, notVisibilityVars>>

\* sync_workspace_visibility leaving the recalled workspace as it is.
sync_workspace_visibility_KeepsRecalled ==
  /\ IF current_workspace.changed /\ recall # current_workspace.root
     THEN /\ visibility' =
               IF current_workspace.root # None
                  /\ current_workspace.root[1] \in DOMAIN visibility
               THEN [visibility EXCEPT ![current_workspace.root[1]] =
                       IF current_workspace.display THEN "Inherited" ELSE "Hidden"]
               ELSE visibility
          /\ recall' = current_workspace.root
     ELSE UNCHANGED <<visibility, recall>>
  /\ current_workspace' = [current_workspace EXCEPT !.changed = FALSE]
  /\ step' = "sync_workspace_visibility"
  /\ UNCHANGED notVisibilityVars

\* sync_workspace_visibility (lines 479-507).  Running it is what ends the change
\* of CurrentWorkspace as far as this system sees it.
sync_workspace_visibility ==
  /\ IF current_workspace.changed /\ recall # current_workspace.root
     THEN LET current_set ==
                IF current_workspace.root # None
                   /\ current_workspace.root[1] \in DOMAIN visibility
                THEN [visibility EXCEPT ![current_workspace.root[1]] =
                        IF current_workspace.display THEN "Inherited" ELSE "Hidden"]
                ELSE visibility
          IN /\ visibility' =
                  IF recall # None /\ recall[1] \in DOMAIN current_set
                  THEN [current_set EXCEPT ![recall[1]] = "Hidden"]
                  ELSE current_set
             /\ recall' = current_workspace.root
     ELSE UNCHANGED <<visibility, recall>>
  /\ current_workspace' = [current_workspace EXCEPT !.changed = FALSE]
  /\ step' = "sync_workspace_visibility"
  /\ UNCHANGED notVisibilityVars

NextVisibility == ChangeCurrentWorkspace \/ set_visibility \/ sync_workspace_visibility

SpecVisibility == InitEditor /\ [][NextVisibility]_vars

(***************************************************************************)
(* Export of a document that was not imported from a URDF: a document read *)
(* by Workcell::from_bytes may hold any frames and joints.  Frames take    *)
(* the ids 1..MaxLinks and joints the ids that follow; a frame's parent is *)
(* the root, frame 1 or a joint id, its anchor a 3D pose or a 2D           *)
(* translation; a joint's parent is a frame id, present or not, or the     *)
(* document id.                                                            *)
(***************************************************************************)
AnchorTranslate2D(t) == [kind |-> "Translate2D", trans |-> t]

FrameIds == 1..MaxLinks

JointIds == (MaxLinks + 1)..(MaxLinks + MaxJoints)

\* A joint is under a frame id, which may be no frame, or under the document.
JointParents == FrameIds \cup {root_id}

FrameChoices == ({root_id, 1} \cup JointIds) \X {"Pose3D", "Translate2D"}

DocFrame(id, parent, anchor) ==
  Parented(parent,
           Frame(IF anchor = "Pose3D" THEN AnchorPose3D(PoseFromUrdf(PoseSample(id)))
                 ELSE AnchorTranslate2D(<<id, 0>>),
                 <<"frame", ToString(id)>>))

DocJoint(id, parent) ==
  Parented(parent,
           [name |-> <<"joint", ToString(id)>>,
            properties |-> IF id % 2 = 1 THEN [kind |-> "Fixed"]
                           ELSE JointPropertiesFromUrdf(
                                  JointSample(id, "Revolute", <<"a">>, <<"b">>))[1]])

\* One inertia and one visual, both under frame 1.
DocInertias == Insert(EmptyMap, 20, Parented(1, InertiaFromUrdf(LinkSample(1, <<"a">>).inertial)))

DocVisuals == Insert(EmptyMap, 21, Parented(1, WorkcellModelFromUrdf(EntrySample(1))))

Document(frames, c, joints, d) ==
  Workcell(RobotName, root_id,
           [id \in frames |-> DocFrame(id, c[id][1], c[id][2])],
           DocVisuals, EmptyMap, DocInertias,
           [id \in joints |-> DocJoint(id, d[id])])

\* Documents of one joint between two frames, for the joint's limits.
LimitValues == {-2, 3}

OptionalLimits == {None} \cup {Some(v) : v \in LimitValues}

RangeLimits ==
  {RangeNone} \cup {RangeSymmetric(l) : l \in LimitValues}
  \cup {RangeAsymmetric(lower, upper) : lower \in OptionalLimits, upper \in OptionalLimits}

LimitsDocument(kind, position, effort, velocity) ==
  Workcell(RobotName, root_id,
           Insert(Insert(EmptyMap, 1, DocFrame(1, root_id, "Pose3D")), 2, DocFrame(2, 3, "Pose3D")),
           EmptyMap, EmptyMap, EmptyMap,
           Insert(EmptyMap, 3,
                  Parented(1, [name |-> <<"joint">>,
                               properties |-> [kind |-> kind, axis |-> <<0, 0, 1>>,
                                               limits |-> [position |-> position,
                                                           effort |-> effort,
                                                           velocity |-> velocity]]])))

\* Documents of root frames and six records: two visuals, two collisions and two
\* inertias, each under the document, under a frame id or under an id that is nothing.
OrphanId == 9

RecordParents == {root_id, 1, 2, OrphanId}

RecordIds == 21..26

RecordModel(id) == WorkcellModelFromUrdf(EntrySample(2 * id + 1))

RecordsDocument(frames, parent) ==
  Workcell(RobotName, root_id,
           [id \in frames |-> DocFrame(id, root_id, "Pose3D")],
           [id \in {21, 22} |-> Parented(parent[id], RecordModel(id))],
           [id \in {23, 24} |-> Parented(parent[id], RecordModel(id))],
           [id \in {25, 26} |->
              Parented(parent[id], InertiaFromUrdf(LinkSample(id, <<"a">>).inertial))],
           EmptyMap)

InitDoc ==
  /\ pc = "loaded"
  /\ urdf = Robot(<<>>, <<>>)
  /\ \/ workcell = Ok(WorkcellDefault)
     \/ \E frames \in SUBSET FrameIds, joints \in SUBSET JointIds :
          \E c \in [frames -> FrameChoices], d \in [joints -> JointParents] :
            workcell = Ok(Document(frames, c, joints, d))
     \/ \E kind \in {"Revolute", "Prismatic", "Continuous"},
           position \in RangeLimits, effort \in RangeLimits, velocity \in RangeLimits :
            workcell = Ok(LimitsDocument(kind, position, effort, velocity))
     \/ \E frames \in SUBSET {1, 2}, parent \in [RecordIds -> RecordParents] :
            workcell = Ok(RecordsDocument(frames, parent))
  /\ robot = NotRun
  /\ EditorInit

ExportDocument ==
  /\ pc = "loaded"
  /\ robot' = to_urdf(workcell.value)
  /\ pc' = "exported"
  /\ UNCHANGED <<urdf, workcell, editorVars>>

NextDoc == ExportDocument

SpecDoc == InitDoc /\ [][NextDoc]_vars

(***************************************************************************)
(* Import and export of one link that has one visual and one collision of  *)
(* a geometry drawn from every kind, with dimensions, locators and scales  *)
(* drawn from small sets.                                                  *)
(***************************************************************************)
Dimensions == {0, 2, 6}

Locators ==
  {<<PackagePrefix, "pkg/m.stl">>, <<PackagePrefix>>, <<"/tmp/m.stl">>,
   <<"file://", "m.stl">>, <<"pkg/", PackagePrefix, "m.stl">>, <<>>}

Scales == {None, Some(<<2, 2, 2>>), Some(<<2, 4, 6>>)}

UrdfGeometries ==
  {[kind |-> "Box", size |-> <<x, y, z>>] : x \in Dimensions, y \in Dimensions, z \in Dimensions}
  \cup {[kind |-> k, radius |-> r, length |-> l] :
          k \in {"Cylinder", "Capsule"}, r \in Dimensions, l \in Dimensions}
  \cup {[kind |-> "Sphere", radius |-> r] : r \in Dimensions}
  \cup {[kind |-> "Mesh", filename |-> f, scale |-> sc] : f \in Locators, sc \in Scales}

GeometryRobot(geometry) ==
  [name |-> RobotName,
   links |-> <<[LinkSample(1, <<"a">>) EXCEPT
                  !.visual = <<[EntrySample(1) EXCEPT !.geometry = geometry]>>,
                  !.collision = <<[EntrySample(2) EXCEPT !.geometry = geometry]>>]>>,
   joints |-> <<>>]

InitGeometry ==
  /\ pc = "start"
  /\ \E geometry \in UrdfGeometries : urdf = GeometryRobot(geometry)
  /\ workcell = NotRun
  /\ robot = NotRun
  /\ EditorInit

NextGeometry == Import \/ Export

SpecGeometry == InitGeometry /\ [][NextGeometry]_vars

(***************************************************************************)
(* Import and export of one joint between two links, for the joint's       *)
(* limit.  The odd values are f64 values that no f32 value equals.         *)
(***************************************************************************)
UrdfLimitValues == {-3, 0, 2, 5}

UrdfLimits ==
  [lower : UrdfLimitValues, upper : UrdfLimitValues,
   effort : UrdfLimitValues, velocity : UrdfLimitValues]

LimitRobot(type, limit) ==
  [name |-> RobotName,
   links |-> Links(<<<<"a">>, <<"b">>>>),
   joints |-> <<[JointSample(1, type, <<"a">>, <<"b">>) EXCEPT !.limit = limit]>>]

InitLimits ==
  /\ pc = "start"
  /\ \E type \in SupportedJointTypes, limit \in UrdfLimits : urdf = LimitRobot(type, limit)
  /\ workcell = NotRun
  /\ robot = NotRun
  /\ EditorInit

NextLimits == Import \/ Export

SpecLimits == InitLimits /\ [][NextLimits]_vars

(***************************************************************************)
(* Vocabulary of the properties of import and export.                      *)
(***************************************************************************)
NumLinks == Len(urdf.links)

NumJoints == Len(urdf.joints)

InputLinkNames == {urdf.links[k].name : k \in 1..NumLinks}

SupportedTypes == \A k \in 1..NumJoints : urdf.joints[k].joint_type \in SupportedJointTypes

FullyReferenced ==
  \A k \in 1..NumJoints :
    urdf.joints[k].parent \in InputLinkNames /\ urdf.joints[k].child \in InputLinkNames

DistinctChildLinks ==
  \A k, n \in 1..NumJoints : k # n => urdf.joints[k].child # urdf.joints[n].child

Imported == pc \in {"imported", "exported"}

ImportedOk == Imported /\ workcell.tag = "Ok"

Exported == pc = "exported"

ExportedOk == Exported /\ robot.tag = "Ok"

\* The joint of the exported robot that has the name of the k-th input joint.
ExportedJointsNamed(name) ==
  {n \in 1..Len(robot.value.joints) : robot.value.joints[n].name = name}

(***************************************************************************)
(* C1.  As claimed: a URDF with N links and M joints, all of a supported   *)
(* type and naming existing links, imports, and the imported document      *)
(* exports to a robot of exactly N links and M joints.                     *)
(***************************************************************************)
C1_AsClaimed ==
  (SupportedTypes /\ FullyReferenced) =>
    /\ Imported => workcell.tag = "Ok"
    /\ Exported => /\ robot.tag = "Ok"
                   /\ Len(robot.value.links) = NumLinks
                   /\ Len(robot.value.joints) = NumJoints

\* C1, amended: such a URDF imports; the export of the imported document succeeds
\* exactly when no two joints name the same child link, and then has exactly M
\* joints, and N links when M = N - 1, N + 1 links (the root link is added) otherwise.
C1_RoundTripCounts ==
  (SupportedTypes /\ FullyReferenced) =>
    /\ Imported => workcell.tag = "Ok"
    /\ Exported => /\ robot.tag = "Ok" <=> DistinctChildLinks
                   /\ robot.tag = "Ok" =>
                        /\ Len(robot.value.joints) = NumJoints
                        /\ Len(robot.value.links) =
                             IF NumJoints = NumLinks - 1 THEN NumLinks ELSE NumLinks + 1

C1_Witness ==
  /\ ExportedOk /\ SupportedTypes /\ FullyReferenced
  /\ NumLinks = 2 /\ NumJoints = 1
  /\ Len(robot.value.links) = 2 /\ Len(robot.value.joints) = 1

(***************************************************************************)
(* C2.  As claimed: in every imported document each joint's parent is a    *)
(* key of frames and exactly one frame has the joint as its parent.        *)
(***************************************************************************)
C2_AsClaimed ==
  ImportedOk =>
    \A j \in DOMAIN workcell.value.joints :
      /\ workcell.value.joints[j].parent \in DOMAIN workcell.value.frames
      /\ Cardinality({f \in DOMAIN workcell.value.frames :
                        workcell.value.frames[f].parent = j}) = 1

(***************************************************************************)
(* C3.  As claimed: for an input of supported joint types and existing     *)
(* link names, the export of the imported document has, for each input     *)
(* joint, a joint of the same name with the same parent and child link     *)
(* names.                                                                  *)
(***************************************************************************)
C3_AsClaimed ==
  (SupportedTypes /\ FullyReferenced /\ Exported) =>
    /\ robot.tag = "Ok"
    /\ \A k \in 1..NumJoints :
         \E n \in ExportedJointsNamed(urdf.joints[k].name) :
           /\ robot.value.joints[n].parent = urdf.joints[k].parent
           /\ robot.value.joints[n].child = urdf.joints[k].child

(***************************************************************************)
(* C4.  As claimed: for such an input, the exported joint of the same name *)
(* has the origin pose of the input joint.                                 *)
(***************************************************************************)
C4_AsClaimed ==
  (SupportedTypes /\ FullyReferenced /\ Exported) =>
    /\ robot.tag = "Ok"
    /\ \A k \in 1..NumJoints :
         \E n \in ExportedJointsNamed(urdf.joints[k].name) :
           robot.value.joints[n].origin = urdf.joints[k].origin

(***************************************************************************)
(* C5.  As claimed: import followed by export keeps every joint's type     *)
(* tag, and the three axis components of a joint that is not Fixed.        *)
(***************************************************************************)
C5_AsClaimed ==
  (SupportedTypes /\ FullyReferenced /\ Exported) =>
    /\ robot.tag = "Ok"
    /\ \A k \in 1..NumJoints :
         \E n \in ExportedJointsNamed(urdf.joints[k].name) :
           /\ robot.value.joints[n].joint_type = urdf.joints[k].joint_type
           /\ urdf.joints[k].joint_type # "Fixed" =>
                robot.value.joints[n].axis = urdf.joints[k].axis

(***************************************************************************)
(* C6.  As claimed: for every link of an imported input, the export of the *)
(* imported document has a link of the same name with the same inertial    *)
(* record and the same visual and collision entries (number, order, pose   *)
(* and shape variant).                                                     *)
(***************************************************************************)
SameEntries(out, in) ==
  /\ Len(out) = Len(in)
  /\ \A n \in 1..Len(in) :
       /\ out[n].origin = in[n].origin
       /\ out[n].geometry.kind = in[n].geometry.kind

C6_AsClaimed ==
  (ImportedOk /\ Exported) =>
    /\ robot.tag = "Ok"
    /\ \A k \in 1..NumLinks :
         \E n \in 1..Len(robot.value.links) :
           /\ robot.value.links[n].name = urdf.links[k].name
           /\ robot.value.links[n].inertial = urdf.links[k].inertial
           /\ SameEntries(robot.value.links[n].visual, urdf.links[k].visual)
           /\ SameEntries(robot.value.links[n].collision, urdf.links[k].collision)

(***************************************************************************)
(* C7.  As claimed: when some joint names a link that is not in the input, *)
(* the import returns BrokenJointReference(s), s a missing link name that  *)
(* a joint names, and no document.                                         *)
(***************************************************************************)
MissingNames ==
  ({urdf.joints[k].parent : k \in 1..NumJoints}
   \cup {urdf.joints[k].child : k \in 1..NumJoints}) \ InputLinkNames

BrokenJoints ==
  {k \in 1..NumJoints :
     urdf.joints[k].parent \notin InputLinkNames \/ urdf.joints[k].child \notin InputLinkNames}

IsBrokenJointReference ==
  /\ workcell.tag = "Err"
  /\ workcell.value.kind = "BrokenJointReference"
  /\ workcell.value.name \in MissingNames

C7_AsClaimed == (BrokenJoints # {} /\ Imported) => IsBrokenJointReference

\* C7, amended: when some joint names a missing link, the import returns an error
\* and no document: BrokenJointReference(s), s a missing link name that a joint
\* names, unless a joint of unsupported type comes before the first joint that
\* names a missing link, and then UnsupportedJointType.
UnsupportedBeforeBroken ==
  \E k \in 1..NumJoints :
    /\ urdf.joints[k].joint_type \notin SupportedJointTypes
    /\ \A b \in BrokenJoints : k < b

C7_BrokenJointReference ==
  (BrokenJoints # {} /\ Imported) =>
    IF UnsupportedBeforeBroken
    THEN workcell = Err(UnsupportedJointType)
    ELSE IsBrokenJointReference

C7_Witness ==
  /\ Imported /\ BrokenJoints # {} /\ ~UnsupportedBeforeBroken
  /\ \E k \in BrokenJoints : urdf.joints[k].joint_type \notin SupportedJointTypes
  /\ IsBrokenJointReference

(***************************************************************************)
(* C8.  When every joint names existing links and some joint has a type    *)
(* outside Fixed, Prismatic, Revolute and Continuous, the import returns   *)
(* UnsupportedJointType and no document.                                   *)
(***************************************************************************)
C8_UnsupportedJointType ==
  (FullyReferenced /\ ~SupportedTypes /\ Imported) => workcell = Err(UnsupportedJointType)

C8_Witness ==
  /\ Imported /\ FullyReferenced /\ ~SupportedTypes /\ NumJoints = 2
  /\ urdf.joints[1].joint_type \in SupportedJointTypes
  /\ workcell = Err(UnsupportedJointType)

(***************************************************************************)
(* C10.  As claimed: in every imported document the parents of frames and  *)
(* joints form a tree rooted at the document: a frame's parent is the root *)
(* or a joint, a joint's parent is a frame, and the parents of any frame   *)
(* or joint lead to the root without passing a node twice.                 *)
(***************************************************************************)
TreeNodes(doc) == (DOMAIN doc.frames) \cup (DOMAIN doc.joints)

ParentOf(doc, id) ==
  IF id \in DOMAIN doc.frames THEN doc.frames[id].parent ELSE doc.joints[id].parent

\* The root is reached from id in at most `fuel` steps along the parents.
RECURSIVE ReachesRoot(_, _, _)
ReachesRoot(doc, id, fuel) ==
  IF id = doc.id THEN TRUE
  ELSE IF fuel = 0 \/ id \notin TreeNodes(doc) THEN FALSE
  ELSE ReachesRoot(doc, ParentOf(doc, id), fuel - 1)

IsRootedTree(doc) ==
  /\ \A f \in DOMAIN doc.frames :
       doc.frames[f].parent = doc.id \/ doc.frames[f].parent \in DOMAIN doc.joints
  /\ \A j \in DOMAIN doc.joints : doc.joints[j].parent \in DOMAIN doc.frames
  /\ \A id \in TreeNodes(doc) : ReachesRoot(doc, id, Cardinality(TreeNodes(doc)))

C10_AsClaimed == ImportedOk => IsRootedTree(workcell.value)

(***************************************************************************)
(* C9.  A load that fails (workcell JSON that does not parse, URDF bytes   *)
(* that are not UTF-8, URDF text that does not parse, a URDF that          *)
(* from_urdf rejects) sends no LoadWorkcell event and leaves the app state *)
(* and the interaction state, pending or current, as they were; and a      *)
(* LoadWorkcell event is sent only in a step that sets the app state to    *)
(* WorkcellEditor and the interaction state to Enable.                     *)
(***************************************************************************)
LoadFails(req) ==
  \/ /\ req.data.kind = "Workcell"
     /\ req.data.data.kind # "workcell_json"
  \/ /\ req.data.kind = "WorkcellUrdf"
     /\ \/ req.data.data.kind = "binary"
        \/ req.data.data.kind \in {"text", "workcell_json"}
        \/ /\ req.data.data.kind = "urdf_xml"
           /\ from_urdf(req.data.data.value).tag = "Err"
           /\ from_urdf(req.data.data.value).value.kind
                \in {"BrokenJointReference", "UnsupportedJointType"}

NumVisuals ==
  Cardinality(UNION {{<<k, n>> : n \in 1..Len(urdf.links[k].visual)} : k \in 1..NumLinks})

NumCollisions ==
  Cardinality(UNION {{<<k, n>> : n \in 1..Len(urdf.links[k].collision)} : k \in 1..NumLinks})

\* The number of ids taken by the links that come before the k-th.
RECURSIVE IdsBefore(_)
IdsBefore(k) ==
  IF k = 1 THEN 0
  ELSE IdsBefore(k - 1) + 2 + Len(urdf.links[k - 1].visual) + Len(urdf.links[k - 1].collision)

FrameIdOfLink(k) == IdsBefore(k) + 1

ChildNames == {urdf.joints[k].child : k \in 1..NumJoints}

RootFrames(doc) == {f \in DOMAIN doc.frames : doc.frames[f].parent = doc.id}

(***************************************************************************)
(* C11.  In every imported document the document id is 0, no entity has    *)
(* id 0, no id is a key of two of the five maps, and for N links, V        *)
(* visuals, C collisions and M joints the keys are exactly 1..2N+V+C+M.    *)
(***************************************************************************)
C11_SharedIdentifierSpace ==
  ImportedOk =>
    LET doc == workcell.value
        keys == <<DOMAIN doc.frames, DOMAIN doc.visuals, DOMAIN doc.collisions,
                  DOMAIN doc.inertias, DOMAIN doc.joints>>
    IN /\ doc.id = 0
       /\ \A m \in 1..5 : 0 \notin keys[m]
       /\ \A m, n \in 1..5 : m # n => keys[m] \cap keys[n] = {}
       /\ UNION {keys[m] : m \in 1..5}
            = 1..(2 * NumLinks + NumVisuals + NumCollisions + NumJoints)

C11_Witness ==
  /\ ImportedOk /\ NumLinks = 2 /\ NumJoints = 2
  /\ NumVisuals = 3 /\ NumCollisions = 2
  /\ DOMAIN workcell.value.joints = {10, 11}

(***************************************************************************)
(* C12.  An imported document has N frames, N inertias, V visuals, C       *)
(* collisions and M joints and the name of the robot; the inertia, the     *)
(* visuals and the collisions of a link have the frame id allocated for    *)
(* that link as parent; and no inertia, visual or collision id is the      *)
(* parent of any entity.                                                   *)
(***************************************************************************)
ParentsIn(map) == {map[id].parent : id \in DOMAIN map}

WithParent(map, parent) == {id \in DOMAIN map : map[id].parent = parent}

C12_LinkRecords ==
  ImportedOk =>
    LET doc == workcell.value
        leaves == (DOMAIN doc.inertias) \cup (DOMAIN doc.visuals) \cup (DOMAIN doc.collisions)
    IN /\ Cardinality(DOMAIN doc.frames) = NumLinks
       /\ Cardinality(DOMAIN doc.inertias) = NumLinks
       /\ Cardinality(DOMAIN doc.visuals) = NumVisuals
       /\ Cardinality(DOMAIN doc.collisions) = NumCollisions
       /\ Cardinality(DOMAIN doc.joints) = NumJoints
       /\ doc.name = urdf.name
       /\ \A k \in 1..NumLinks :
            LET f == FrameIdOfLink(k)
            IN /\ f \in DOMAIN doc.frames
               /\ doc.frames[f].bundle.name = urdf.links[k].name
               /\ \E i \in DOMAIN doc.inertias :
                    /\ WithParent(doc.inertias, f) = {i}
                    /\ doc.inertias[i].bundle.mass * 2 = urdf.links[k].inertial.mass
               /\ Cardinality(WithParent(doc.visuals, f)) = Len(urdf.links[k].visual)
               /\ Cardinality(WithParent(doc.collisions, f)) = Len(urdf.links[k].collision)
       /\ (ParentsIn(doc.inertias) \cup ParentsIn(doc.visuals) \cup ParentsIn(doc.collisions))
            \subseteq DOMAIN doc.frames
       /\ leaves \cap (ParentsIn(doc.frames) \cup ParentsIn(doc.joints) \cup ParentsIn(doc.inertias)
                       \cup ParentsIn(doc.visuals) \cup ParentsIn(doc.collisions)) = {}

C12_Witness ==
  /\ ImportedOk /\ NumLinks = 2 /\ NumJoints = 1
  /\ WithParent(workcell.value.visuals, FrameIdOfLink(2)) = {8, 9}
  /\ WithParent(workcell.value.inertias, FrameIdOfLink(2)) = {7}

(***************************************************************************)
(* C13.  As claimed: in every imported document, for every joint of the    *)
(* input, the joint's parent is the frame of the joint's parent link, the  *)
(* frame of the joint's child link has the joint as parent and the joint's *)
(* origin as its 3D pose; the frames of links that no joint names as child *)
(* keep the root as parent and the default pose.                           *)
(***************************************************************************)
LinksNamed(name) == {k \in 1..NumLinks : urdf.links[k].name = name}

C13_AsClaimed ==
  ImportedOk =>
    LET doc == workcell.value
    IN /\ \A k \in 1..NumJoints :
            \E j \in DOMAIN doc.joints :
              /\ doc.joints[j].bundle.name = urdf.joints[k].name
              /\ \E p \in LinksNamed(urdf.joints[k].parent) :
                   doc.joints[j].parent = FrameIdOfLink(p)
              /\ \E c \in LinksNamed(urdf.joints[k].child) :
                   /\ doc.frames[FrameIdOfLink(c)].parent = j
                   /\ doc.frames[FrameIdOfLink(c)].bundle.anchor.kind = "Pose3D"
                   /\ doc.frames[FrameIdOfLink(c)].bundle.anchor.pose.trans
                        = [n \in 1..3 |-> urdf.joints[k].origin.xyz[n] \div 2]
                   /\ doc.frames[FrameIdOfLink(c)].bundle.anchor.pose.rot
                        = RotEuler([n \in 1..3 |-> urdf.joints[k].origin.rpy[n] \div 2])
       /\ \A k \in 1..NumLinks :
            urdf.links[k].name \notin ChildNames =>
              doc.frames[FrameIdOfLink(k)]
                = Parented(doc.id, Frame(AnchorPose3D(PoseDefault), urdf.links[k].name))

\* The same with no two joints naming the same child link.
C13_DistinctChildLinks == DistinctChildLinks => C13_AsClaimed

(***************************************************************************)
(* C14.  As claimed: in every imported document the number of frames whose *)
(* parent is the root equals the number of input links that no joint names *)
(* as its child link.                                                      *)
(***************************************************************************)
C14_AsClaimed ==
  ImportedOk =>
    Cardinality(RootFrames(workcell.value))
      = Cardinality({k \in 1..NumLinks : urdf.links[k].name \notin ChildNames})

\* C14, amended: the number of frames whose parent is the root equals the number of
\* input links less the number of distinct link names that joints name as child: of
\* several links of one name only the last is looked up by that name, and the
\* others keep the root as parent.
C14_RootFrameCount ==
  ImportedOk =>
    Cardinality(RootFrames(workcell.value)) = NumLinks - Cardinality(ChildNames)

C14_Witness ==
  /\ ImportedOk /\ NumLinks = 2 /\ NumJoints = 1
  /\ urdf.links[1].name = urdf.links[2].name
  /\ urdf.joints[1].child = urdf.links[1].name
  /\ RootFrames(workcell.value) = {1}

(***************************************************************************)
(* Vocabulary of the properties of the export of a document.               *)
(***************************************************************************)
DocExported == pc = "exported" /\ workcell.tag = "Ok"

\* The k-th smallest element of a set of ids.
IdAt(S, k) == CHOOSE id \in S : Cardinality({o \in S : o < id}) = k - 1

RootLinkName(doc) == doc.name \o <<"_workcell_link">>

\* The frame that to_urdf finds as the child of a joint: the one of least id.
FoundChild(doc, j) ==
  CHOOSE f \in WithParent(doc.frames, j) : \A o \in WithParent(doc.frames, j) : f <= o

MissingParent(doc, j) == doc.joints[j].parent \notin DOMAIN doc.frames

Childless(doc, j) == WithParent(doc.frames, j) = {}

BadChildAnchor(doc, j) ==
  /\ ~MissingParent(doc, j)
  /\ ~Childless(doc, j)
  /\ doc.frames[FoundChild(doc, j)].bundle.anchor.kind # "Pose3D"

FailingJoints(doc) ==
  {j \in DOMAIN doc.joints : MissingParent(doc, j) \/ Childless(doc, j) \/ BadChildAnchor(doc, j)}

FirstFailing(doc) == CHOOSE j \in FailingJoints(doc) : \A o \in FailingJoints(doc) : j <= o

(***************************************************************************)
(* C15.  When exactly one frame has the document id as parent, a           *)
(* successful to_urdf gives exactly one link per frame, named after its    *)
(* frame, and adds no link named <document name>_workcell_link.            *)
(***************************************************************************)
C15_SingleRootFrameIsFlattened ==
  (DocExported /\ robot.tag = "Ok" /\ Cardinality(RootFrames(workcell.value)) = 1) =>
    LET doc == workcell.value
        links == robot.value.links
    IN /\ Len(links) = Cardinality(DOMAIN doc.frames)
       /\ \A k \in 1..Len(links) :
            /\ links[k].name = doc.frames[IdAt(DOMAIN doc.frames, k)].bundle.name
            /\ links[k].name # RootLinkName(doc)

C15_Witness ==
  /\ DocExported /\ robot.tag = "Ok"
  /\ Cardinality(RootFrames(workcell.value)) = 1
  /\ Cardinality(DOMAIN workcell.value.frames) = 2
  /\ Cardinality(DOMAIN workcell.value.joints) = 1
  /\ Len(robot.value.links) = 2

BrokenIds(doc) ==
  {doc.joints[j].parent : j \in {o \in DOMAIN doc.joints : MissingParent(doc, o)}}
  \cup {j \in DOMAIN doc.joints : ~MissingParent(doc, j) /\ Childless(doc, j)}

C17_AsClaimed ==
  DocExported =>
    LET doc == workcell.value
    IN /\ BrokenIds(doc) # {} =>
            /\ robot.tag = "Err"
            /\ robot.value.kind = "BrokenReference"
            /\ robot.value.id \in BrokenIds(doc)
       /\ FailingJoints(doc) = {} => robot.tag = "Ok"

\* C17, amended: to_urdf succeeds exactly when no joint fails, and otherwise returns
\* the error of the failing joint of least id and no robot: BrokenReference(p) when
\* that joint's parent p is not a key of frames, BrokenReference(j) when its parent
\* frame exists and no frame has j as parent.
C17_BrokenReference ==
  DocExported =>
    LET doc == workcell.value
    IN IF FailingJoints(doc) = {} THEN robot.tag = "Ok"
       ELSE LET j == FirstFailing(doc)
            IN /\ robot.tag = "Err"
               /\ MissingParent(doc, j) => robot = Err(BrokenReference(doc.joints[j].parent))
               /\ (~MissingParent(doc, j) /\ Childless(doc, j)) => robot = Err(BrokenReference(j))

C17_Witness ==
  /\ DocExported
  /\ Cardinality(FailingJoints(workcell.value)) = 2
  /\ MissingParent(workcell.value, FirstFailing(workcell.value))
  /\ Childless(workcell.value, FirstFailing(workcell.value))
  /\ robot = Err(BrokenReference(workcell.value.joints[FirstFailing(workcell.value)].parent))

(***************************************************************************)
(* C18.  As claimed: to_urdf fails with InvalidAnchorType carrying the     *)
(* offending anchor when a joint's parent and child frames both exist and  *)
(* the child frame's anchor is not a 3D pose; the anchor kind of a frame   *)
(* that is not found as the child of any joint never makes to_urdf fail.   *)
(***************************************************************************)
BadAnchorJoints(doc) == {j \in DOMAIN doc.joints : BadChildAnchor(doc, j)}

FoundChildren(doc) ==
  {FoundChild(doc, j) : j \in {o \in DOMAIN doc.joints : ~Childless(doc, o)}}

\* The document with the anchor of frame f changed to the other kind.
WithOtherAnchor(doc, f) ==
  [doc EXCEPT !.frames[f].bundle.anchor =
     IF doc.frames[f].bundle.anchor.kind = "Pose3D"
     THEN AnchorTranslate2D(<<0, 0>>)
     ELSE AnchorPose3D(PoseDefault)]

AnchorOfOtherFramesIsIgnored(doc) ==
  \A f \in (DOMAIN doc.frames) \ FoundChildren(doc) :
    LET other == to_urdf(WithOtherAnchor(doc, f))
    IN /\ other.tag = robot.tag
       /\ robot.tag = "Err" => other = robot

C18_AsClaimed ==
  DocExported =>
    LET doc == workcell.value
    IN /\ BadAnchorJoints(doc) # {} =>
            /\ robot.tag = "Err"
            /\ robot.value.kind = "InvalidAnchorType"
            /\ robot.value.anchor
                 \in {doc.frames[FoundChild(doc, j)].bundle.anchor : j \in BadAnchorJoints(doc)}
       /\ AnchorOfOtherFramesIsIgnored(doc)

\* C18, amended: when the failing joint of least id has a parent frame and a child
\* frame, to_urdf fails with InvalidAnchorType carrying the anchor of that child
\* frame (a joint of smaller id whose reference is broken fails first, with
\* BrokenReference); the anchor kind of a frame that is not found as the child of
\* any joint changes neither the success nor the error of to_urdf.
C18_InvalidAnchorType ==
  DocExported =>
    LET doc == workcell.value
    IN /\ (FailingJoints(doc) # {} /\ BadChildAnchor(doc, FirstFailing(doc))) =>
            robot = Err(InvalidAnchorType(
                          doc.frames[FoundChild(doc, FirstFailing(doc))].bundle.anchor))
       /\ (BadAnchorJoints(doc) # {} /\ ~BadChildAnchor(doc, FirstFailing(doc))) =>
            /\ robot.tag = "Err"
            /\ robot.value.kind = "BrokenReference"
       /\ AnchorOfOtherFramesIsIgnored(doc)

C18_Witness ==
  /\ DocExported
  /\ FailingJoints(workcell.value) # {}
  /\ Cardinality(WithParent(workcell.value.frames, FirstFailing(workcell.value))) = 2
  /\ \E f \in (DOMAIN workcell.value.frames) \ FoundChildren(workcell.value) :
       workcell.value.frames[f].bundle.anchor.kind = "Pose3D"
  /\ robot.tag = "Err"
  /\ robot.value.kind = "InvalidAnchorType"

(***************************************************************************)
(* Vocabulary of the limits of an exported joint.  A limit of the document *)
(* is an f32 and an exported limit an f64: the f32 value m is the f64      *)
(* value 2 * m.                                                            *)
(***************************************************************************)
LimitedJoints(doc) == {j \in DOMAIN doc.joints : doc.joints[j].bundle.properties.kind # "Fixed"}

LimitsOf(doc, j) == doc.joints[j].bundle.properties.limits

\* The limit of the exported joint that has the name of joint j of the document.
ExportedLimit(doc, j) ==
  LET n == CHOOSE n \in 1..Len(robot.value.joints) :
                    robot.value.joints[n].name = doc.joints[j].bundle.name
  IN robot.value.joints[n].limit

(***************************************************************************)
(* C19.  A position limit of kind None exports lower = 0 and upper = 0, an *)
(* effort limit of kind None exports 1000 and a velocity limit of kind     *)
(* None exports 10; a Symmetric effort or velocity limit of magnitude m    *)
(* exports m.                                                              *)
(***************************************************************************)
C19_DefaultLimits ==
  (DocExported /\ robot.tag = "Ok") =>
    \A j \in LimitedJoints(workcell.value) :
      LET limits == LimitsOf(workcell.value, j)
          out == ExportedLimit(workcell.value, j)
      IN /\ limits.position.kind = "None" => (out.lower = 0 /\ out.upper = 0)
         /\ limits.effort.kind = "None" => out.effort = 1000
         /\ limits.velocity.kind = "None" => out.velocity = 10
         /\ limits.effort.kind = "Symmetric" => out.effort = 2 * limits.effort.l
         /\ limits.velocity.kind = "Symmetric" => out.velocity = 2 * limits.velocity.l

C19_Witness ==
  /\ DocExported /\ robot.tag = "Ok"
  /\ \E j \in LimitedJoints(workcell.value) :
       /\ LimitsOf(workcell.value, j).position.kind = "None"
       /\ LimitsOf(workcell.value, j).effort.kind = "None"
       /\ LimitsOf(workcell.value, j).velocity = RangeSymmetric(3)
       /\ ExportedLimit(workcell.value, j) = [lower |-> 0, upper |-> 0, effort |-> 1000,
                                              velocity |-> 6]

(***************************************************************************)
(* C20.  An Asymmetric effort or velocity limit exports the least of the   *)
(* bounds that are present, and the default (1000 for effort, 10 for       *)
(* velocity) when neither is present.                                      *)
(***************************************************************************)
PresentBounds(range) ==
  {2 * range.lower[n] : n \in DOMAIN range.lower} \cup {2 * range.upper[n] : n \in DOMAIN range.upper}

IsLeastOrDefault(value, range, default) ==
  IF PresentBounds(range) = {} THEN value = default
  ELSE value \in PresentBounds(range) /\ \A o \in PresentBounds(range) : value <= o

C20_AsymmetricLimits ==
  (DocExported /\ robot.tag = "Ok") =>
    \A j \in LimitedJoints(workcell.value) :
      LET limits == LimitsOf(workcell.value, j)
          out == ExportedLimit(workcell.value, j)
      IN /\ limits.effort.kind = "Asymmetric" => IsLeastOrDefault(out.effort, limits.effort, 1000)
         /\ limits.velocity.kind = "Asymmetric" =>
              IsLeastOrDefault(out.velocity, limits.velocity, 10)

C20_Witness ==
  /\ DocExported /\ robot.tag = "Ok"
  /\ \E j \in LimitedJoints(workcell.value) :
       /\ LimitsOf(workcell.value, j).effort = RangeAsymmetric(Some(3), Some(-2))
       /\ LimitsOf(workcell.value, j).velocity = RangeAsymmetric(None, None)
       /\ ExportedLimit(workcell.value, j).effort = -4
       /\ ExportedLimit(workcell.value, j).velocity = 10

(***************************************************************************)
(* C21.  As claimed: a Symmetric position limit of magnitude m exports     *)
(* lower = -m and upper = +m.                                              *)
(***************************************************************************)
C21_AsClaimed ==
  (DocExported /\ robot.tag = "Ok") =>
    \A j \in LimitedJoints(workcell.value) :
      LimitsOf(workcell.value, j).position.kind = "Symmetric" =>
        /\ ExportedLimit(workcell.value, j).lower = -(2 * LimitsOf(workcell.value, j).position.l)
        /\ ExportedLimit(workcell.value, j).upper = 2 * LimitsOf(workcell.value, j).position.l

(***************************************************************************)
(* C22.  Geometry import is total and keeps the kind: a box, cylinder,     *)
(* capsule or sphere imports as the primitive of that kind with the same   *)
(* dimensions; a mesh imports as a package source holding the locator      *)
(* without its package:// prefix when it starts with that prefix, and as a *)
(* local source holding the whole locator otherwise; the export of a       *)
(* primitive gives the kind and the dimensions it was imported from.       *)
(***************************************************************************)
\* The value of an f32 among the f64: twice its count.
SameDimension(imported, given) == 2 * imported = given

ImportedAs(geometry, given) ==
  CASE given.kind = "Box" ->
         /\ geometry.kind = "Primitive" /\ geometry.shape.kind = "Box"
         /\ \A n \in 1..3 : SameDimension(geometry.shape.size[n], given.size[n])
    [] given.kind \in {"Cylinder", "Capsule"} ->
         /\ geometry.kind = "Primitive" /\ geometry.shape.kind = given.kind
         /\ SameDimension(geometry.shape.radius, given.radius)
         /\ SameDimension(geometry.shape.length, given.length)
    [] given.kind = "Sphere" ->
         /\ geometry.kind = "Primitive" /\ geometry.shape.kind = "Sphere"
         /\ SameDimension(geometry.shape.radius, given.radius)
    [] given.kind = "Mesh" ->
         IF Len(given.filename) > 0 /\ given.filename[1] = "package://"
         THEN geometry.kind = "Mesh"
              /\ geometry.source = [kind |-> "Package", path |-> Tail(given.filename)]
         ELSE geometry.kind = "Mesh"
              /\ geometry.source = [kind |-> "Local", path |-> given.filename]

FaultyJoints ==
  {k \in 1..NumJoints :
     \/ urdf.joints[k].parent \notin InputLinkNames
     \/ urdf.joints[k].child \notin InputLinkNames
     \/ urdf.joints[k].joint_type \notin {"Fixed", "Prismatic", "Revolute", "Continuous"}}

FirstFaulty == CHOOSE k \in FaultyJoints : \A o \in FaultyJoints : k <= o

C23_FirstFaultyJointDecides ==
  Imported =>
    IF FaultyJoints = {} THEN workcell.tag = "Ok"
    ELSE LET joint == urdf.joints[FirstFaulty]
         IN workcell =
              [tag |-> "Err",
               value |-> IF joint.parent \notin InputLinkNames
                         THEN [kind |-> "BrokenJointReference", name |-> joint.parent]
                         ELSE IF joint.child \notin InputLinkNames
                         THEN [kind |-> "BrokenJointReference", name |-> joint.child]
                         ELSE [kind |-> "UnsupportedJointType", name |-> <<>>]]

C23_Witness ==
  /\ Imported /\ NumJoints = 2 /\ FaultyJoints = {2}
  /\ urdf.joints[2].joint_type = "Floating"
  /\ urdf.joints[2].parent = <<"b">>
  /\ urdf.joints[2].child = <<"x">>
  /\ workcell = Err(BrokenJointReference(<<"b">>))

(***************************************************************************)
(* C24.  As claimed: when two or more joints name the same child link,     *)
(* from_urdf succeeds, the child link's frame has the parent and the pose  *)
(* of the last such joint, every earlier such joint is in the document     *)
(* with no frame under it, and to_urdf of the document fails with          *)
(* BrokenReference of the least id of these childless joints.              *)
(***************************************************************************)
JointIdOf(k) == IdsBefore(NumLinks + 1) + k

JointsWithChild(name) == {k \in 1..NumJoints : urdf.joints[k].child = name}

\* The links that two or more joints name as their child.
SharedChildNames ==
  {name \in ChildNames \cap InputLinkNames : Cardinality(JointsWithChild(name)) > 1}

LastOf(S) == CHOOSE k \in S : \A o \in S : o <= k

\* The joints that a later joint of the same child link overrides.
OverriddenJoints ==
  UNION {JointsWithChild(name) \ {LastOf(JointsWithChild(name))} : name \in SharedChildNames}

LastJointOwnsChild(doc) ==
  \A name \in SharedChildNames :
    LET k == LastOf(JointsWithChild(name))
        frame == doc.frames[FrameIdOfLink(LastOf(LinksNamed(name)))]
    IN /\ frame.parent = JointIdOf(k)
       /\ frame.bundle.anchor.kind = "Pose3D"
       /\ frame.bundle.anchor.pose.trans = [n \in 1..3 |-> urdf.joints[k].origin.xyz[n] \div 2]
       /\ frame.bundle.anchor.pose.rot
            = RotEuler([n \in 1..3 |-> urdf.joints[k].origin.rpy[n] \div 2])

OverriddenJointsAreChildless(doc) ==
  \A k \in OverriddenJoints :
    /\ JointIdOf(k) \in DOMAIN doc.joints
    /\ doc.joints[JointIdOf(k)].bundle.name = urdf.joints[k].name
    /\ WithParent(doc.frames, JointIdOf(k)) = {}

SharedChildOutcome ==
  /\ Imported =>
       /\ workcell.tag = "Ok"
       /\ LastJointOwnsChild(workcell.value)
       /\ OverriddenJointsAreChildless(workcell.value)
  /\ Exported =>
       robot = Err(BrokenReference(JointIdOf(CHOOSE k \in OverriddenJoints :
                                               \A o \in OverriddenJoints : k <= o)))

C24_AsClaimed == SharedChildNames # {} => SharedChildOutcome

\* C24, amended: the same when, besides, every joint names existing links and has a
\* supported type; otherwise from_urdf fails with the error of the first faulty
\* joint.
C24_SharedChildLink ==
  SharedChildNames # {} =>
    IF FaultyJoints = {} THEN SharedChildOutcome
    ELSE Imported => workcell.tag = "Err"

C24_Witness ==
  /\ Exported /\ NumLinks = 2 /\ NumJoints = 2
  /\ urdf.joints[1].child = <<"b">> /\ urdf.joints[2].child = <<"b">>
  /\ workcell.value.frames[6].parent = 11
  /\ robot = Err(BrokenReference(10))

(***************************************************************************)
(* C25.  In a successful to_urdf every link has one inertial, and the      *)
(* visuals and the collisions of its frame in ascending record id.  The    *)
(* inertial is that of the inertia of greatest id under the frame, or the  *)
(* default inertial when there is none.  A record whose parent is not an   *)
(* exported frame is in no link, and does not make to_urdf fail.           *)
(***************************************************************************)
ExportedFrameIds(doc) ==
  DOMAIN doc.frames \cup (IF Cardinality(RootFrames(doc)) = 1 THEN {} ELSE {doc.id})

RecordsUnder(map, parent) == {id \in DOMAIN map : map[id].parent = parent}

\* The entries of a link are the records under its frame, in ascending record id.
EntriesAreRecords(entries, map, parent) ==
  /\ Len(entries) = Cardinality(RecordsUnder(map, parent))
  /\ \A n \in 1..Len(entries) :
       LET model == map[IdAt(RecordsUnder(map, parent), n)].bundle
       IN /\ entries[n].name = Some(model.name)
          /\ entries[n].geometry = GeometryToUrdf(model.geometry)
          /\ entries[n].origin.xyz = [i \in 1..3 |-> model.pose.trans[i] * 2]

InertialIsOfGreatestId(inertial, doc, parent) ==
  LET under == RecordsUnder(doc.inertias, parent)
  IN IF under = {} THEN inertial = UrdfInertialDefault
     ELSE LET inertia == doc.inertias[CHOOSE id \in under : \A o \in under : o <= id].bundle
          IN /\ inertial.mass = inertia.mass * 2
             /\ inertial.inertia.ixx = inertia.moment.ixx * 2
             /\ inertial.inertia.izz = inertia.moment.izz * 2
             /\ inertial.origin.xyz = [i \in 1..3 |-> inertia.center.trans[i] * 2]

C25_LinkRecordsByParent ==
  DocExported =>
    LET doc == workcell.value
    IN /\ FailingJoints(doc) = {} => robot.tag = "Ok"
       /\ robot.tag = "Ok" =>
            /\ Len(robot.value.links) = Cardinality(ExportedFrameIds(doc))
            /\ \A k \in 1..Len(robot.value.links) :
                 LET link == robot.value.links[k]
                     frame == IdAt(ExportedFrameIds(doc), k)
                 IN /\ DOMAIN link = {"name", "inertial", "visual", "collision"}
                    /\ EntriesAreRecords(link.visual, doc.visuals, frame)
                    /\ EntriesAreRecords(link.collision, doc.collisions, frame)
                    /\ InertialIsOfGreatestId(link.inertial, doc, frame)

\* Two inertias and two collisions under frame 1, one visual under the synthesized
\* root, one visual under nothing; frame 2 has no record.
C25_Witness ==
  /\ DocExported /\ robot.tag = "Ok"
  /\ DOMAIN workcell.value.frames = {1, 2}
  /\ DOMAIN workcell.value.visuals = {21, 22}
  /\ DOMAIN workcell.value.collisions = {23, 24}
  /\ DOMAIN workcell.value.inertias = {25, 26}
  /\ workcell.value.inertias[25].parent = 1 /\ workcell.value.inertias[26].parent = 1
  /\ workcell.value.collisions[23].parent = 1 /\ workcell.value.collisions[24].parent = 1
  /\ workcell.value.visuals[21].parent = OrphanId
  /\ workcell.value.visuals[22].parent = root_id
  /\ Len(robot.value.links) = 3
  /\ Len(robot.value.links[1].visual) = 1
  /\ Len(robot.value.links[2].collision) = 2
  /\ robot.value.links[2].inertial.mass = workcell.value.inertias[26].bundle.mass * 2
  /\ robot.value.links[2].inertial.mass # workcell.value.inertias[25].bundle.mass * 2
  /\ robot.value.links[3].inertial = UrdfInertialDefault
  /\ robot.value.links[3].visual = <<>>

(***************************************************************************)
(* C26.  As claimed: no frame is stored under the document id, and a joint *)
(* whose parent is the document id makes to_urdf fail with                 *)
(* BrokenReference of the document id, whether or not the root link is     *)
(* synthesized; in a successful export with a synthesized root link no     *)
(* joint has that link as its parent or its child.                         *)
(***************************************************************************)
RootParentedJoints(doc) == {j \in DOMAIN doc.joints : doc.joints[j].parent = doc.id}

RootLinkIsUnconnected ==
  (DocExported /\ robot.tag = "Ok" /\ Cardinality(RootFrames(workcell.value)) # 1) =>
    LET doc == workcell.value
        joints == robot.value.joints
    IN /\ \E k \in 1..Len(robot.value.links) : robot.value.links[k].name = RootLinkName(doc)
       /\ \A k \in 1..Len(joints) :
            /\ joints[k].parent # RootLinkName(doc)
            /\ joints[k].child # RootLinkName(doc)
            /\ joints[k].parent
                 = doc.frames[doc.joints[IdAt(DOMAIN doc.joints, k)].parent].bundle.name
            /\ joints[k].child
                 = doc.frames[FoundChild(doc, IdAt(DOMAIN doc.joints, k))].bundle.name

C26_AsClaimed ==
  /\ (DocExported /\ ~(workcell.value.id \in DOMAIN workcell.value.frames)
        /\ RootParentedJoints(workcell.value) # {}) =>
       robot = Err(BrokenReference(workcell.value.id))
  /\ RootLinkIsUnconnected

\* C26, amended: the joint under the document id always makes to_urdf fail, and
\* with BrokenReference of the document id when no joint of smaller id fails;
\* otherwise with the error of the failing joint of least id.
C26_RootLinkIsUnconnected ==
  /\ (DocExported /\ ~(workcell.value.id \in DOMAIN workcell.value.frames)
        /\ RootParentedJoints(workcell.value) # {}) =>
       LET doc == workcell.value
       IN /\ robot.tag = "Err"
          /\ RootParentedJoints(doc) \subseteq FailingJoints(doc)
          /\ FirstFailing(doc) \in RootParentedJoints(doc) =>
               robot = Err(BrokenReference(doc.id))
          /\ robot = Err(BrokenReference(doc.id)) =>
               \E j \in RootParentedJoints(doc) :
                 \A o \in DOMAIN doc.joints :
                   o < j => ~(o \in FailingJoints(doc)) \/ doc.joints[o].parent = doc.id
  /\ RootLinkIsUnconnected

\* A joint under the document id while two root frames make to_urdf synthesize the
\* root frame.
C26_Witness ==
  /\ DocExported
  /\ Cardinality(RootFrames(workcell.value)) = 2
  /\ RootParentedJoints(workcell.value) # {}
  /\ robot = Err(BrokenReference(workcell.value.id))

(***************************************************************************)
(* C27.  to_urdf converts the joints in ascending id and returns the error *)
(* of the first joint that fails, and then no robot.  A joint fails with   *)
(* BrokenReference of its parent id when the parent frame is missing,      *)
(* else with BrokenReference of its own id when no frame has it as parent, *)
(* else with InvalidAnchorType when the anchor of its child frame, the     *)
(* frame of least id under the joint, is not a 3D pose.                    *)
(***************************************************************************)
ErrorOfJoint(doc, j) ==
  IF MissingParent(doc, j) THEN BrokenReference(doc.joints[j].parent)
  ELSE IF Childless(doc, j) THEN BrokenReference(j)
  ELSE InvalidAnchorType(doc.frames[FoundChild(doc, j)].bundle.anchor)

C27_FirstFailingJointDecides ==
  DocExported =>
    LET doc == workcell.value
    IN IF FailingJoints(doc) # {}
       THEN /\ robot = Err(ErrorOfJoint(doc, FirstFailing(doc)))
            /\ ~("links" \in DOMAIN robot.value)
       ELSE /\ robot.tag = "Ok"
            /\ Len(robot.value.joints) = Cardinality(DOMAIN doc.joints)
            /\ \A k \in 1..Len(robot.value.joints) :
                 LET j == IdAt(DOMAIN doc.joints, k)
                     child == doc.frames[FoundChild(doc, j)].bundle
                 IN /\ robot.value.joints[k].name = doc.joints[j].bundle.name
                    /\ robot.value.joints[k].child = child.name
                    /\ robot.value.joints[k].origin.xyz
                         = [i \in 1..3 |-> child.anchor.pose.trans[i] * 2]

\* Joint 3 has neither its parent frame nor a child frame, and joint 4 has a child
\* frame with a 2D anchor: the missing parent of joint 3 is what is reported.
C27_Witness ==
  /\ DocExported
  /\ DOMAIN workcell.value.joints = {3, 4}
  /\ MissingParent(workcell.value, 3) /\ Childless(workcell.value, 3)
  /\ BadChildAnchor(workcell.value, 4)
  /\ robot = Err(BrokenReference(workcell.value.joints[3].parent))
  /\ workcell.value.joints[3].parent # 3

(***************************************************************************)
(* C28.  As claimed: the limit of a joint with limits imports as an        *)
(* Asymmetric position limit with both bounds, a Symmetric effort limit    *)
(* and a Symmetric velocity limit, and the export of the imported joint    *)
(* has the lower, upper, effort and velocity of the input.                 *)
(***************************************************************************)
SingleAxisJoints == {k \in 1..NumJoints : urdf.joints[k].joint_type # "Fixed"}

ImportedLimits(k) == workcell.value.joints[JointIdOf(k)].bundle.properties.limits

ImportedLimitKinds ==
  ImportedOk =>
    \A k \in SingleAxisJoints :
      /\ ImportedLimits(k).position.kind = "Asymmetric"
      /\ ImportedLimits(k).position.lower # None
      /\ ImportedLimits(k).position.upper # None
      /\ ImportedLimits(k).effort.kind = "Symmetric"
      /\ ImportedLimits(k).velocity.kind = "Symmetric"

RoundTripLimit(k) ==
  robot.value.joints[CHOOSE n \in ExportedJointsNamed(urdf.joints[k].name) : TRUE].limit

C28_AsClaimed ==
  /\ ImportedLimitKinds
  /\ ExportedOk => \A k \in SingleAxisJoints : RoundTripLimit(k) = urdf.joints[k].limit

\* The values that narrowing to f32 and widening back can give for an f64 value:
\* the value itself when an f32 value equals it, else one of its two f32 neighbours.
Narrowed(x) == IF x % 2 = 0 THEN {x} ELSE {x - 1, x + 1}

\* C28, amended: the export has the four values as narrowed to f32, which are those
\* of the input when f32 values equal them; it is what the imported record holds,
\* and never a default put in its place.
C28_LimitsRoundTrip ==
  /\ ImportedLimitKinds
  /\ ExportedOk =>
       \A k \in SingleAxisJoints :
         LET in == urdf.joints[k].limit
             out == RoundTripLimit(k)
         IN /\ out.lower \in Narrowed(in.lower)
            /\ out.upper \in Narrowed(in.upper)
            /\ out.effort \in Narrowed(in.effort)
            /\ out.velocity \in Narrowed(in.velocity)
            /\ out.lower = ImportedLimits(k).position.lower[1] * 2
            /\ out.upper = ImportedLimits(k).position.upper[1] * 2
            /\ out.effort = ImportedLimits(k).effort.l * 2
            /\ out.velocity = ImportedLimits(k).velocity.l * 2

\* A limit with lower above upper, a zero effort and a velocity that no f32 equals.
C28_Witness ==
  /\ ExportedOk /\ NumJoints = 1
  /\ urdf.joints[1].joint_type = "Prismatic"
  /\ urdf.joints[1].limit = [lower |-> 2, upper |-> -3, effort |-> 0, velocity |-> 5]
  /\ RoundTripLimit(1).lower = 2
  /\ RoundTripLimit(1).effort = 0
  /\ RoundTripLimit(1).velocity # DEFAULT_VELOCITY_LIMIT

(***************************************************************************)
(* C29.  dispatch_save_workspace_events sends nothing and opens no dialog  *)
(* when no workspace is loaded; otherwise it sends, in the order of the    *)
(* events, a SaveWorkspaceFile for each Path destination and for each      *)
(* DefaultFile destination when the workspace has a default file, and      *)
(* opens a dialog for the others.  A run of workspace_file_save_complete   *)
(* takes one request, the oldest, and sends a SaveWorkcell with its root,  *)
(* path and format if and only if the app state is WorkcellEditor; nothing *)
(* else takes a request from the channel or sends a SaveWorkcell.          *)
(***************************************************************************)
SentAtOnce(event) ==
  \/ event.destination.kind = "Path"
  \/ /\ event.destination.kind = "DefaultFile"
     /\ current_workspace.root[1] \in DOMAIN default_files

SentToDialog(event) == ~SentAtOnce(event)

FileOf(event) ==
  [path |-> IF event.destination.kind = "Path" THEN event.destination.path
            ELSE default_files[current_workspace.root[1]],
   format |-> event.format,
   root |-> current_workspace.root[1]]

DispatchStep ==
  step' = "dispatch_save_workspace_events" =>
    IF current_workspace.root = None
    THEN save_channel' = save_channel /\ dialogs' = dialogs
    ELSE LET at_once == SelectSeq(save_events, SentAtOnce)
             to_dialog == SelectSeq(save_events, SentToDialog)
         IN /\ save_channel' = save_channel \o [k \in 1..Len(at_once) |-> FileOf(at_once[k])]
            /\ dialogs' = dialogs \o [k \in 1..Len(to_dialog) |->
                                       [format |-> to_dialog[k].format,
                                        root |-> current_workspace.root[1]]]

CompleteStep ==
  step' = "workspace_file_save_complete" =>
    /\ save_channel # <<>>
    /\ save_channel' = Tail(save_channel)
    /\ app_state = "WorkcellEditor" =>
         save_workcell' = Append(save_workcell,
                                 [root |-> Head(save_channel).root,
                                  to_file |-> Head(save_channel).path,
                                  format |-> Head(save_channel).format])
    /\ app_state = "MainMenu" => save_workcell' = save_workcell

OnlyCompleteTakesAndEmits ==
  /\ Len(save_channel') < Len(save_channel) => step' = "workspace_file_save_complete"
  /\ Len(save_workcell') > Len(save_workcell) =>
       step' = "workspace_file_save_complete" /\ app_state = "WorkcellEditor"

C29_SaveChannel == [][DispatchStep /\ CompleteStep /\ OnlyCompleteTakesAndEmits]_vars

\* A request was taken in the main menu and discarded, another waits in the channel.
C29_Witness ==
  /\ step = "workspace_file_save_complete"
  /\ app_state = "MainMenu"
  /\ save_workcell = <<>>
  /\ Len(save_channel) = 1
  /\ current_workspace.root # None

(***************************************************************************)
(* C30.  A run of sync_workspace_visibility on a changed CurrentWorkspace  *)
(* whose root is not the recalled root makes the recalled root the current *)
(* root, hides the entity recalled before, and makes the current root      *)
(* Inherited when the display flag is set and Hidden when it is not; a run *)
(* on an unchanged CurrentWorkspace, or on one whose root is the recalled  *)
(* root, changes no Visibility and not the recalled root.  Visibility is   *)
(* that of the entities that have the component.                           *)
(***************************************************************************)
SyncRuns == step' = "sync_workspace_visibility"

SyncApplies == current_workspace.changed /\ recall # current_workspace.root

VisibilityAfterSync ==
  /\ recall' = current_workspace.root
  /\ DOMAIN visibility' = DOMAIN visibility
  /\ \A entity \in DOMAIN visibility :
       visibility'[entity] =
         IF recall = Some(entity) THEN "Hidden"
         ELSE IF current_workspace.root = Some(entity)
         THEN (IF current_workspace.display THEN "Inherited" ELSE "Hidden")
         ELSE visibility[entity]

C30_VisibilityFollowsWorkspace ==
  [][SyncRuns => /\ SyncApplies => VisibilityAfterSync
                 /\ ~SyncApplies => UNCHANGED <<visibility, recall>>
                 /\ current_workspace'.root = current_workspace.root
                 /\ current_workspace'.display = current_workspace.display]_vars

\* The workspace went from entity 1, shown, to entity 2, not shown, and then to
\* entity 3, which has no Visibility: both are hidden and entity 3 is recalled.
C30_Witness ==
  /\ step = "sync_workspace_visibility"
  /\ ~current_workspace.changed
  /\ current_workspace.root = Some(3)
  /\ recall = Some(3)
  /\ visibility = [entity \in VisibleEntities |-> "Hidden"]

====
